---- MODULE Spec2Model ----
(***************************************************************************)
(* ParserBot: Markdown -> typed blocks -> GOST formatted DOCX, driven by a *)
(* Telegram conversation.                                                  *)
(*                                                                         *)
(*   bot/converter.py     extract_frontmatter, parse_markdown              *)
(*   bot/docx_builder.py  build_docx and its rendering routines            *)
(*   bot/main.py          the conversation handlers                        *)
(*                                                                         *)
(* String literals of the source that are written in Cyrillic are          *)
(* transliterated here (the module is plain ASCII); the comment beside     *)
(* each names the source line that holds the original.                     *)
(***************************************************************************)
EXTENDS Integers, Sequences, FiniteSets, TLC

VARIABLES
    pc,         \* position inside build_docx: "idle" when no call is running
    blocks,     \* build_docx argument: the block sequence
    metadata,   \* build_docx argument: the Metadata record
    work_type,  \* build_docx argument
    doc,        \* the python-docx Document under construction
    idx,        \* _render_blocks: number of blocks already visited
    counters,   \* _render_blocks: the [H1, H2, H3] counters of the body pass
    steps,      \* history: the pipeline steps performed by the running call
    buf,        \* what build_docx returned (None until it returns)
    exc,        \* the exception that left build_docx ("" when none)
    net,        \* what urlopen answered in the last step (None: it was not called)
    fm_text,    \* extract_frontmatter: its argument
    loaded,     \* extract_frontmatter: what yaml.safe_load answered (None: not called)
    fm,         \* extract_frontmatter: its outcome (None before the call)
    conv,       \* per chat: the state of the conversation
    user_data,  \* context.user_data of the user
    out,        \* the messages sent by the handler that ran last
    event,      \* the update handled last (None before the first)
    caller,     \* the chat whose generate step is inside build_docx (0: none)
    tree        \* _walk_ast: its argument, the token list mistune built

fmVars == <<fm_text, loaded, fm>>
buildVars == <<pc, blocks, metadata, work_type, doc, idx, counters, steps, buf, exc, net>>
botVars == <<conv, user_data, out, event, caller>>
vars == <<buildVars, fmVars, botVars, tree>>

-----------------------------------------------------------------------------
(* Bounds of the model.                                                    *)

\* longest block sequence handed to build_docx in SpecBuild
MaxBlocks == 2
\* longest heading sequence in SpecNum
MaxHeadings == 5
\* longest text (in tokens) handed to extract_frontmatter in SpecFM
MaxTextLen == 8
\* most cells in a header or a row, and most body rows, of a table in SpecTable
MaxCells == 3
MaxTableRows == 2

None == [none |-> TRUE]

-----------------------------------------------------------------------------
(* Python's str() on the small naturals the counters reach, and            *)
(* str.upper() on the heading texts of the model.                          *)

Digit == <<"0", "1", "2", "3", "4", "5", "6", "7", "8", "9">>

RECURSIVE Str(_)
Str(n) == IF n < 10 THEN Digit[n + 1] ELSE Str(n \div 10) \o Digit[(n % 10) + 1]

Upper(text) ==
    CASE text = "intro" -> "INTRO"
      [] text = "Usage" -> "USAGE"
      [] OTHER -> text

Or(a, b) == IF a # "" THEN a ELSE b     \* Python's  a or b  on strings

-----------------------------------------------------------------------------
(* converter.py: the block dataclasses.                                    *)

Run(text, bold, italic, code) ==
    [text |-> text, bold |-> bold, italic |-> italic, code |-> code]

HeadingBlock(level, text) == [type |-> "heading", level |-> level, text |-> text]
ParagraphBlock(runs) == [type |-> "paragraph", runs |-> runs]
ListBlock(ordered, items) == [type |-> "list", ordered |-> ordered, items |-> items]
CodeBlock(language, code) == [type |-> "code", language |-> language, code |-> code]
TableBlock(headers, rows) == [type |-> "table", headers |-> headers, rows |-> rows]
ImageBlock(alt, url) == [type |-> "image", alt |-> alt, url |-> url]
BlockquoteBlock(runs) == [type |-> "blockquote", runs |-> runs]

MetaKeys == {"title", "author", "group", "teacher", "subject", "university",
             "year", "work_number", "institute", "department", "city"}

Metadata == [k \in MetaKeys |-> ""]

\* A URL is kept as its scheme prefix and the rest, so that str.startswith
\* is a comparison of the prefix; UrlText is the string itself.
Url(prefix, rest) == [prefix |-> prefix, rest |-> rest]
UrlText(url) == url.prefix \o url.rest

-----------------------------------------------------------------------------
(* converter.py: extract_frontmatter.                                      *)
(*                                                                         *)
(* A text is a sequence of tokens: "---", "\n", " " and "x" (any other     *)
(* character).  What yaml.safe_load makes of the header is the library's   *)
(* answer: a Python value, or a YAMLError with its complaint.              *)

Tokens == {"---", "\n", " ", "x"}
WS == {"\n", " "}                        \* the tokens \s matches

PyNone == [t |-> "none"]
PyStr(s) == [t |-> "str", v |-> s]
PyInt(n) == [t |-> "int", v |-> n]
PyBool(b) == [t |-> "bool", v |-> b]
PyList(q) == [t |-> "list", v |-> q]
PyDict(f) == [t |-> "dict", v |-> f]
EmptyDict == PyDict(<<>>)

\* Python's truth value of a value
Truthy(x) ==
    CASE x.t = "none" -> FALSE
      [] x.t = "str" -> x.v # ""
      [] x.t = "int" -> x.v # 0
      [] x.t = "bool" -> x.v
      [] x.t = "list" -> x.v # <<>>
      [] x.t = "dict" -> DOMAIN x.v # {}

\* Python's str() of a value; a list shows the repr of its items
RECURSIVE PyStrOf(_)
RECURSIVE PyItems(_)
PyItems(q) ==
    IF q = <<>> THEN ""
    ELSE (IF Head(q).t = "str" THEN "'" \o Head(q).v \o "'" ELSE PyStrOf(Head(q)))
         \o (IF Tail(q) = <<>> THEN "" ELSE ", " \o PyItems(Tail(q)))
PyStrOf(x) ==
    CASE x.t = "none" -> "None"
      [] x.t = "str" -> x.v
      [] x.t = "int" -> Str(x.v)
      [] x.t = "bool" -> IF x.v THEN "True" ELSE "False"
      [] x.t = "list" -> "[" \o PyItems(x.v) \o "]"
      [] x.t = "dict" -> "{...}"

YamlError(problem) == [raised |-> "YAMLError", problem |-> problem]
YamlValue(value) == [raised |-> "", value |-> value]

AllWS(text, a, b) == \A k \in a..b : text[k] \in WS

\* where the closing part  \n---\s*\n  that starts at token j ends: \s* is
\* greedy, so at the last newline of the whitespace after the dashes (0: no
\* match at j)
CloseEnd(text, j) ==
    IF j + 1 <= Len(text) /\ text[j] = "\n" /\ text[j + 1] = "---"
    THEN LET E == {e \in (j + 2)..Len(text) :
                      text[e] = "\n" /\ AllWS(text, j + 2, e - 1)}
         IN  IF E = {} THEN 0 ELSE CHOOSE e \in E : \A d \in E : d <= e
    ELSE 0

\* _FRONTMATTER_RE.match(text):  \A---\s*\n(.*?)\n---\s*\n  with DOTALL.
\* The opening \s* is greedy (the last newline of the whitespace after the
\* dashes that still lets the rest match), the group is lazy (the first
\* closing part after it).  None, or group(1) and m.end().
FrontmatterMatch(text) ==
    IF text = <<>> \/ Head(text) # "---" THEN None
    ELSE LET closing(i) == {j \in (i + 1)..Len(text) : CloseEnd(text, j) # 0}
             opens == {i \in 2..Len(text) :
                          /\ text[i] = "\n"
                          /\ AllWS(text, 2, i - 1)
                          /\ closing(i) # {}}
         IN  IF opens = {} THEN None
             ELSE LET i == CHOOSE a \in opens : \A b \in opens : b <= a
                      j == CHOOSE a \in closing(i) : \A b \in closing(i) : a <= b
                  IN  [group |-> SubSeq(text, i + 1, j - 1),
                       end |-> CloseEnd(text, j)]

\* raw.get(key, ""), then str()
FieldOf(raw, key) == PyStrOf(IF key \in DOMAIN raw.v THEN raw.v[key] ELSE PyStr(""))

\* MetadataOf with the department read from the institute key
MetadataOf_WrongKey(raw) ==
    [title |-> FieldOf(raw, "title"),
     author |-> FieldOf(raw, "author"),
     group |-> FieldOf(raw, "group"),
     teacher |-> FieldOf(raw, "teacher"),
     subject |-> FieldOf(raw, "subject"),
     university |-> FieldOf(raw, "university"),
     year |-> FieldOf(raw, "year"),
     work_number |-> FieldOf(raw, "work_number"),
     institute |-> FieldOf(raw, "institute"),
     department |-> FieldOf(raw, "institute"),
     city |-> FieldOf(raw, "city")]

\* extract_frontmatter, lines 99-111
MetadataOf(raw) ==
    [title |-> FieldOf(raw, "title"),
     author |-> FieldOf(raw, "author"),
     group |-> FieldOf(raw, "group"),
     teacher |-> FieldOf(raw, "teacher"),
     subject |-> FieldOf(raw, "subject"),
     university |-> FieldOf(raw, "university"),
     year |-> FieldOf(raw, "year"),
     work_number |-> FieldOf(raw, "work_number"),
     institute |-> FieldOf(raw, "institute"),
     department |-> FieldOf(raw, "department"),
     city |-> FieldOf(raw, "city")]

\* converter.py:95-98; the Cyrillic message reads "Error in the YAML header
\* of the document: {e}\nCheck the YAML format between the --- markers."
FrontmatterMessage(problem) ==
    "Oshibka v YAML-zagolovke dokumenta: " \o problem
    \o "\nProverte format YAML mezhdu markerami ---."

\* extract_frontmatter(text); answer is what yaml.safe_load answers for
\* m.group(1).  The outcome: the exception that leaves the function ("" for
\* none) with its message, or the returned (meta, body); matched tells
\* whether the pattern matched and header is the group handed to
\* yaml.safe_load.
ExtractFrontmatter(text, answer) ==
    LET m == FrontmatterMatch(text)
    IN  IF m = None
        THEN [raised |-> "", message |-> "", matched |-> FALSE, header |-> <<>>,
              meta |-> Metadata, body |-> text]
        ELSE IF answer.raised # ""
        THEN [raised |-> "ValueError", message |-> FrontmatterMessage(answer.problem),
              matched |-> TRUE, header |-> m.group, meta |-> None, body |-> None]
        ELSE LET raw == IF Truthy(answer.value) THEN answer.value ELSE EmptyDict
             IN  IF raw.t # "dict"
                 THEN [raised |-> "AttributeError",
                       message |-> "'" \o raw.t \o "' object has no attribute 'get'",
                       matched |-> TRUE, header |-> m.group, meta |-> None, body |-> None]
                 ELSE [raised |-> "", message |-> "", matched |-> TRUE,
                       header |-> m.group,
                       meta |-> MetadataOf(raw),
                       body |-> SubSeq(text, m.end + 1, Len(text))]

-----------------------------------------------------------------------------
(* converter.py: lowering of the mistune AST.  A node is a Python dict: a  *)
(* record that has only the keys the node has, so that  "k" in node  is    *)
(* k \in DOMAIN node.  A code string is kept as the sequence of its lines  *)
(* (str.split("\n")), every other string as a string.                      *)

Get(node, key, default) == IF key \in DOMAIN node THEN node[key] ELSE default

\* child.get("raw", child.get("text", ""))
RawOrText(node) == Get(node, "raw", Get(node, "text", ""))

NoAttrs == [x \in {} |-> ""]

\* lines 127-129 and 131-133: "r.bold = True" and "r.italic = True" on each run
SetBold(runs) == [i \in DOMAIN runs |-> [runs[i] EXCEPT !.bold = TRUE]]
\* the runs of an emphasis node rebuilt from their text: bold and code are lost
SetItalic_Rebuilds(runs) == [i \in DOMAIN runs |-> Run(runs[i].text, FALSE, TRUE, FALSE)]
SetItalic(runs) == [i \in DOMAIN runs |-> [runs[i] EXCEPT !.italic = TRUE]]

RECURSIVE ExtractPlainText(_)
\* _extract_plain_text, lines 159-174
ExtractPlainText(children) ==
    IF children = <<>> THEN ""
    ELSE LET child == Head(children)
             tp == Get(child, "type", "")
             part == IF tp \in {"text", "codespan"} THEN RawOrText(child)
                     ELSE IF "children" \in DOMAIN child
                          THEN ExtractPlainText(child.children)
                     ELSE IF "raw" \in DOMAIN child THEN child.raw
                     ELSE ""
         IN  part \o ExtractPlainText(Tail(children))

RECURSIVE InlineToRuns(_)
\* _inline_to_runs, lines 118-156
InlineToRuns(children) ==
    IF children = <<>> THEN <<>>
    ELSE LET child == Head(children)
             tp == Get(child, "type", "")
             inner == InlineToRuns(Get(child, "children", <<>>))
             mine ==
                CASE tp = "text" -> <<Run(RawOrText(child), FALSE, FALSE, FALSE)>>
                  [] tp = "codespan" -> <<Run(RawOrText(child), FALSE, FALSE, TRUE)>>
                  [] tp = "strong" -> SetBold(inner)
                  [] tp = "emphasis" -> SetItalic(inner)
                  [] tp = "link" ->
                       LET url == UrlText(Get(Get(child, "attrs", NoAttrs), "url", Url("", "")))
                       IN  IF url # ""
                           THEN Append(inner, Run(" (" \o url \o ")", FALSE, FALSE, FALSE))
                           ELSE inner
                  [] tp = "image" ->
                       LET alt == ExtractPlainText(Get(child, "children", <<>>))
                       IN  IF alt # ""
                           THEN <<Run("[" \o alt \o "]", FALSE, FALSE, FALSE)>>
                           ELSE <<>>
                  [] tp \in {"softbreak", "linebreak"} ->
                       <<Run("\n", FALSE, FALSE, FALSE)>>
                  [] OTHER ->
                       IF RawOrText(child) # ""
                       THEN <<Run(RawOrText(child), FALSE, FALSE, FALSE)>>
                       ELSE IF "children" \in DOMAIN child THEN inner
                       ELSE <<>>
         IN  mine \o InlineToRuns(Tail(children))

RECURSIVE ItemRuns(_)
\* _list_items_to_runs, lines 183-190: the runs of one item's children
ItemRuns(children) ==
    IF children = <<>> THEN <<>>
    ELSE LET child == Head(children)
             tp == Get(child, "type", "")
             mine == IF tp = "paragraph" THEN InlineToRuns(Get(child, "children", <<>>))
                     ELSE IF tp = "text"
                          THEN <<Run(RawOrText(child), FALSE, FALSE, FALSE)>>
                     ELSE IF "children" \in DOMAIN child THEN InlineToRuns(child.children)
                     ELSE <<>>
         IN  mine \o ItemRuns(Tail(children))

\* _list_items_to_runs appending an item only when it has runs
ListItemsToRuns_DropsEmpty(items) ==
    SelectSeq([i \in DOMAIN items |-> ItemRuns(Get(items[i], "children", <<>>))],
              LAMBDA item_runs : item_runs # <<>>)

\* _list_items_to_runs, lines 177-192
ListItemsToRuns(items) ==
    [i \in DOMAIN items |-> ItemRuns(Get(items[i], "children", <<>>))]

RECURSIVE CellTexts(_)
\* the table_cell children of a head or of a row, lines 271-273 and 277-279
CellTexts(cells) ==
    IF cells = <<>> THEN <<>>
    ELSE (IF Get(Head(cells), "type", "") = "table_cell"
          THEN <<ExtractPlainText(Get(Head(cells), "children", <<>>))>>
          ELSE <<>>)
         \o CellTexts(Tail(cells))

RECURSIVE BodyRows(_)
\* lines 275-281: the rows of a table_body that hold a cell
BodyRows(rows) ==
    IF rows = <<>> THEN <<>>
    ELSE LET row_data == CellTexts(Get(Head(rows), "children", <<>>))
         IN  (IF row_data # <<>> THEN <<row_data>> ELSE <<>>) \o BodyRows(Tail(rows))

RECURSIVE TableHeaders(_)
TableHeaders(children) ==
    IF children = <<>> THEN <<>>
    ELSE (IF Get(Head(children), "type", "") = "table_head"
          THEN CellTexts(Get(Head(children), "children", <<>>)) ELSE <<>>)
         \o TableHeaders(Tail(children))

RECURSIVE TableRows(_)
TableRows(children) ==
    IF children = <<>> THEN <<>>
    ELSE (IF Get(Head(children), "type", "") = "table_body"
          THEN BodyRows(Get(Head(children), "children", <<>>)) ELSE <<>>)
         \o TableRows(Tail(children))

\* _parse_table without the test of line 282: a TableBlock for every table
ParseTable_Unfiltered(token) ==
    LET children == Get(token, "children", <<>>)
    IN  <<TableBlock(TableHeaders(children), TableRows(children))>>

\* _parse_table, lines 262-284: the blocks it contributes (none for None)
ParseTable(token) ==
    LET children == Get(token, "children", <<>>)
        headers == TableHeaders(children)
        rows == TableRows(children)
    IN  IF headers # <<>> \/ rows # <<>> THEN <<TableBlock(headers, rows)>> ELSE <<>>

RECURSIVE RStripNewlines(_)
\* raw.rstrip("\n") on the lines of raw: the trailing empty lines go
RStripNewlines(lines) ==
    IF Len(lines) > 1 /\ lines[Len(lines)] = ""
    THEN RStripNewlines(SubSeq(lines, 1, Len(lines) - 1))
    ELSE lines

RECURSIVE QuoteRuns_BreakAlways(_, _)
\* lines 236-246 without the tests of lines 240 and 244: a line break before
\* the runs of every child
QuoteRuns_BreakAlways(children, runs) ==
    IF children = <<>> THEN runs
    ELSE LET child == Head(children)
             sep == <<Run("\n", FALSE, FALSE, FALSE)>>
             more == IF Get(child, "type", "") = "paragraph"
                     THEN runs \o sep \o InlineToRuns(Get(child, "children", <<>>))
                     ELSE IF "children" \in DOMAIN child
                          THEN runs \o sep \o InlineToRuns(child.children)
                     ELSE runs
         IN  QuoteRuns_BreakAlways(Tail(children), more)

RECURSIVE QuoteRuns(_, _)
\* lines 236-246: the runs of a block quote's children, after runs
QuoteRuns(children, runs) ==
    IF children = <<>> THEN runs
    ELSE LET child == Head(children)
             sep == IF runs # <<>> THEN <<Run("\n", FALSE, FALSE, FALSE)>> ELSE <<>>
             more == IF Get(child, "type", "") = "paragraph"
                     THEN runs \o sep \o InlineToRuns(Get(child, "children", <<>>))
                     ELSE IF "children" \in DOMAIN child
                          THEN runs \o sep \o InlineToRuns(child.children)
                     ELSE runs
         IN  QuoteRuns(Tail(children), more)

\* the paragraph branch with every image taken for inline content
ParagraphToBlocks_NoPromotion(children) ==
    IF InlineToRuns(children) # <<>>
    THEN <<ParagraphBlock(InlineToRuns(children))>>
    ELSE <<>>

\* _walk_ast, lines 206-217: the blocks a paragraph token contributes
ParagraphToBlocks(children) ==
    IF Len(children) = 1 /\ Get(children[1], "type", "") = "image"
    THEN <<ImageBlock(ExtractPlainText(Get(children[1], "children", <<>>)),
                      Get(Get(children[1], "attrs", NoAttrs), "url", Url("", "")))>>
    ELSE IF InlineToRuns(children) # <<>>
         THEN <<ParagraphBlock(InlineToRuns(children))>>
         ELSE <<>>

RECURSIVE WalkAst(_)
\* _walk_ast, lines 195-259
WalkAst(tokens) ==
    IF tokens = <<>> THEN <<>>
    ELSE LET token == Head(tokens)
             tp == Get(token, "type", "")
             attrs == Get(token, "attrs", NoAttrs)
             children == Get(token, "children", <<>>)
             mine ==
                CASE tp = "heading" ->
                       <<HeadingBlock(Get(attrs, "level", 1), ExtractPlainText(children))>>
                  [] tp = "paragraph" -> ParagraphToBlocks(children)
                  [] tp \in {"code_block", "block_code"} ->
                       <<CodeBlock(Get(attrs, "info", ""),
                                   RStripNewlines(Get(token, "raw", Get(token, "text", <<"">>))))>>
                  [] tp = "list" ->
                       <<ListBlock(Get(attrs, "ordered", FALSE), ListItemsToRuns(children))>>
                  [] tp = "table" -> ParseTable(token)
                  [] tp = "block_quote" ->
                       IF QuoteRuns(children, <<>>) # <<>>
                       THEN <<BlockquoteBlock(QuoteRuns(children, <<>>))>>
                       ELSE <<>>
                  [] tp \in {"thematic_break", "blank_line"} -> <<>>
                  [] OTHER ->
                       IF "children" \in DOMAIN token THEN WalkAst(token.children) ELSE <<>>
         IN  mine \o WalkAst(Tail(tokens))

\* parse_markdown(text), lines 289-295.  answer is what yaml.safe_load makes
\* of the header, ast what mistune builds from the body.  raised is the
\* exception that leaves the function ("" for none).
ParseMarkdown(text, answer, ast) ==
    LET r == ExtractFrontmatter(text, answer)
    IN  IF r.raised # ""
        THEN [raised |-> r.raised, message |-> r.message, meta |-> None,
              blocks |-> <<>>]
        ELSE [raised |-> "", message |-> "", meta |-> r.meta, blocks |-> WalkAst(ast)]

-----------------------------------------------------------------------------
(* styles.py: label tables and title page defaults.                        *)

\* styles.py:29  WORK_TYPES (genitive labels; Cyrillic in the source)
WORK_TYPES ==
    [lab |-> "laboratornoy rabote", coursework |-> "kursovoy rabote",
     practice |-> "praktike", report |-> "rabote"]

DEFAULT_UNIVERSITY == "GUMRF imeni admirala S.O. Makarova"   \* styles.py:37
DEFAULT_INSTITUTE == "INSTITUT VODNOGO TRANSPORTA"           \* styles.py:44
DEFAULT_DEPARTMENT == "KAFEDRA KOIB"                         \* styles.py:45
DEFAULT_CITY == "Sankt - Peterburg"                          \* styles.py:46
DEFAULT_GROUP == "IZ-41"                                     \* styles.py:47

FONT_NAME == "Times New Roman"
CODE_FONT_NAME == "Courier New"
FONT_SIZE == 14
CODE_FONT_SIZE == 12
TABLE_FONT_SIZE == 12

\* set_run_font: the font of one run of the document
RunFont(text, font_name, font_size, bold, italic) ==
    [text |-> text, font |-> font_name, size |-> font_size,
     bold |-> bold, italic |-> italic]

-----------------------------------------------------------------------------
(* docx_builder.py: helpers and the title page.                            *)

\* _centered_line: a centered paragraph; the run exists only for a
\* non-empty text
CenteredLine(text, bold, font_size) ==
    [el |-> "line", align |-> "center", left_indent |-> 0,
     runs |-> IF text # "" THEN <<RunFont(text, FONT_NAME, font_size, bold, FALSE)>>
              ELSE <<>>]

\* _right_block_line: left aligned with a 10 cm left indent
RightBlockLine(text, bold, font_size) ==
    [el |-> "line", align |-> "left", left_indent |-> 10,
     runs |-> IF text # "" THEN <<RunFont(text, FONT_NAME, font_size, bold, FALSE)>>
              ELSE <<>>]

\* docx_builder.py:98  56 dashes
SeparatorRule == "--------------------------------------------------------"
\* docx_builder.py:147 and 167: the blank line that stands for a missing name
BlankNameLine == "________________________________________   ______________"
\* docx_builder.py:151 and 171
SignatureCaption == "          (familiya, imya, otchestvo)                    (podpis)"

\* the caption paragraph: an empty right-block line that is given one run
CaptionLine ==
    [RightBlockLine("", FALSE, 10) EXCEPT
        !.runs = <<RunFont(SignatureCaption, FONT_NAME, 10, FALSE, FALSE)>>]

WorkLabel(wt) == IF wt \in DOMAIN WORK_TYPES THEN WORK_TYPES[wt] ELSE WORK_TYPES["lab"]

\* the year of the clock whatever the metadata says
TitleYear_AlwaysNow(meta, now_year) == now_year

\* line 84: year = meta.year or str(datetime.now().year)
TitleYear(meta, now_year) == Or(meta.year, now_year)

\* _add_title_page; now_year is str(datetime.now().year)
AddTitlePage(meta, wt, now_year) ==
    LET university == Or(meta.university, DEFAULT_UNIVERSITY)
        institute == Or(meta.institute, DEFAULT_INSTITUTE)
        department == Or(meta.department, DEFAULT_DEPARTMENT)
        title == Or(meta.title, "")
        author == Or(meta.author, "")
        group == Or(meta.group, DEFAULT_GROUP)
        teacher == Or(meta.teacher, "")
        year == TitleYear(meta, now_year)
        city == Or(meta.city, DEFAULT_CITY)
        work_label == WorkLabel(wt)
        work_number == Or(meta.work_number, "")
        subject == Or(meta.subject, "")
        work_line == ("po " \o work_label)
                     \o (IF work_number # "" THEN " N" \o work_number ELSE "")
    IN  <<CenteredLine(university, TRUE, 12),
          CenteredLine(SeparatorRule, TRUE, 12),
          CenteredLine(institute, TRUE, 12),
          CenteredLine("", TRUE, 12),
          CenteredLine(department, TRUE, 12),
          CenteredLine("", TRUE, 12),
          CenteredLine("", TRUE, 12),
          CenteredLine("OTCHET", TRUE, 16),
          CenteredLine(work_line, TRUE, 14)>>
        \o (IF subject # ""
            THEN <<CenteredLine("po discipline <<" \o subject \o ">>", TRUE, 12)>>
            ELSE <<>>)
        \o (IF title # ""
            THEN <<CenteredLine("<<" \o title \o ">>", TRUE, 12)>>
            ELSE <<>>)
        \o <<CenteredLine("", TRUE, 12),
             CenteredLine("", TRUE, 12),
             CenteredLine("", TRUE, 12),
             RightBlockLine("Vypolnil: student gruppy " \o group, TRUE, 12),
             RightBlockLine("", FALSE, 12),
             IF author # ""
                 THEN RightBlockLine(author \o "   ______________", FALSE, 12)
                 ELSE RightBlockLine(BlankNameLine, FALSE, 12),
             CaptionLine,
             RightBlockLine("", FALSE, 12),
             RightBlockLine("Rukovoditel:", TRUE, 12),
             RightBlockLine("", FALSE, 12),
             IF teacher # ""
                 THEN RightBlockLine(teacher \o "   ______________", FALSE, 12)
                 ELSE RightBlockLine(BlankNameLine, FALSE, 12),
             CaptionLine,
             RightBlockLine("", FALSE, 12),
             RightBlockLine("Predstavlena na kafedru:   <<___>> _____________ "
                            \o year \o " g.", TRUE, 12),
             CenteredLine("", TRUE, 12),
             CenteredLine(city, TRUE, 12),
             CenteredLine(year, TRUE, 12)>>

\* _add_page_break
PageBreak == [el |-> "page_break"]


-----------------------------------------------------------------------------
(* docx_builder.py: the table of contents.                                 *)

Headings(bs) == SelectSeq(bs, LAMBDA b : b.type = "heading")

\* TocNumber with the reset of the H3 counter on a level-2 heading left out
TocNumber_NoH3Reset(cs, level) ==
    IF level = 1
    THEN LET c == <<cs[1] + 1, 0, 0>>
         IN  [counters |-> c, num |-> Str(c[1])]
    ELSE IF level = 2
    THEN LET c == <<cs[1], cs[2] + 1, cs[3]>>
         IN  [counters |-> c, num |-> Str(c[1]) \o "." \o Str(c[2])]
    ELSE LET c == <<cs[1], cs[2], cs[3] + 1>>
         IN  [counters |-> c,
              num |-> Str(c[1]) \o "." \o Str(c[2]) \o "." \o Str(c[3])]

\* _add_toc, lines 212-223: one heading's effect on the counters of the
\* table-of-contents pass and the number it is given
TocNumber(cs, level) ==
    IF level = 1
    THEN LET c == <<cs[1] + 1, 0, 0>>
         IN  [counters |-> c, num |-> Str(c[1])]
    ELSE IF level = 2
    THEN LET c == <<cs[1], cs[2] + 1, 0>>
         IN  [counters |-> c, num |-> Str(c[1]) \o "." \o Str(c[2])]
    ELSE LET c == <<cs[1], cs[2], cs[3] + 1>>
         IN  [counters |-> c,
              num |-> Str(c[1]) \o "." \o Str(c[2]) \o "." \o Str(c[3])]

\* _add_toc, lines 225-244: the paragraph of one entry
TocEntry(num, level, text) ==
    LET display_text == IF level = 1 THEN Upper(text) ELSE text
        entry == num \o " " \o display_text
    IN  [el |-> "toc_entry", left_indent |-> level - 1,
         runs |-> <<RunFont(entry, FONT_NAME, 14, level = 1, FALSE),
                    RunFont("\t", FONT_NAME, 14, FALSE, FALSE)>>]

\* _add_toc, the loop of line 211 over the collected headings
RECURSIVE TocEntries(_, _)
TocEntries(hs, cs) ==
    IF hs = <<>> THEN <<>>
    ELSE LET n == TocNumber(cs, Head(hs).level)
         IN  <<TocEntry(n.num, Head(hs).level, Head(hs).text)>>
             \o TocEntries(Tail(hs), n.counters)

\* docx_builder.py:204 "(Soderzhanie pusto - net zagolovkov)"
TocEmptyLine ==
    [el |-> "toc_empty",
     runs |-> <<RunFont("(Soderzhanie pusto - net zagolovkov)", FONT_NAME, 12,
                        FALSE, TRUE)>>]

\* _add_toc testing the blocks, not the headings: the placeholder is written
\* as soon as a block is no heading, and the entries follow it
AddToc_NoReturn(bs) ==
    <<CenteredLine("SODERZHANIE", TRUE, 14)>>
    \o (IF Len(bs) = Len(Headings(bs)) THEN <<>> ELSE <<TocEmptyLine>>)
    \o TocEntries(Headings(bs), <<0, 0, 0>>)

\* _add_toc; the title of line 196 is "SODERZHANIE"
AddToc(bs) ==
    <<CenteredLine("SODERZHANIE", TRUE, 14)>>
    \o (IF Headings(bs) = <<>> THEN <<TocEmptyLine>>
        ELSE TocEntries(Headings(bs), <<0, 0, 0>>))

-----------------------------------------------------------------------------
(* docx_builder.py: rendering of the blocks.                               *)

Min(a, b) == IF a < b THEN a ELSE b

\* _render_blocks, lines 276-287: the counters of the body pass
SectionNumber(cs, level) ==
    IF level = 1
    THEN LET c == <<cs[1] + 1, 0, 0>>
         IN  [counters |-> c, num |-> Str(c[1])]
    ELSE IF level = 2
    THEN LET c == <<cs[1], cs[2] + 1, 0>>
         IN  [counters |-> c, num |-> Str(c[1]) \o "." \o Str(c[2])]
    ELSE LET c == <<cs[1], cs[2], cs[3] + 1>>
         IN  [counters |-> c,
              num |-> Str(c[1]) \o "." \o Str(c[2]) \o "." \o Str(c[3])]

\* _render_heading
RenderHeading(block, section_number) ==
    LET prefix == IF section_number # "" THEN section_number \o " " ELSE ""
    IN  IF block.level = 1
        THEN <<[el |-> "heading", align |-> "center", space_before |-> 24,
                text |-> prefix \o Upper(block.text), outline |-> 0]>>
        ELSE IF block.level = 2
        THEN <<[el |-> "heading", align |-> "left", space_before |-> 18,
                text |-> prefix \o block.text, outline |-> 1]>>
        ELSE <<[el |-> "heading", align |-> "left", space_before |-> 12,
                text |-> prefix \o block.text,
                outline |-> Min(block.level - 1, 8)]>>

\* _render_paragraph / _render_list: the font of one Run
RenderRun(r) ==
    IF r.code THEN RunFont(r.text, CODE_FONT_NAME, CODE_FONT_SIZE, FALSE, FALSE)
    ELSE RunFont(r.text, FONT_NAME, FONT_SIZE, r.bold, r.italic)

RenderRuns(rs) == [i \in 1..Len(rs) |-> RenderRun(rs[i])]

\* _render_paragraph
RenderParagraph(block) == <<[el |-> "paragraph", runs |-> RenderRuns(block.runs)]>>

\* _render_list; the unordered prefix of line 360 is an en dash and a space
RenderList(block) ==
    [i \in 1..Len(block.items) |->
        [el |-> "list_item",
         runs |-> <<RunFont(IF block.ordered THEN Str(i) \o ". " ELSE "- ",
                            FONT_NAME, FONT_SIZE, FALSE, FALSE)>>
                  \o RenderRuns(block.items[i])]]

\* _render_code_block; block.code is kept as its lines, code.split("\n");
\* the label of line 382 is "Listing (<language>):"
RenderCodeBlock(block) ==
    (IF block.language # ""
     THEN <<[el |-> "code_label",
             runs |-> <<RunFont("Listing (" \o block.language \o "):",
                                FONT_NAME, 10, FALSE, TRUE)>>]>>
     ELSE <<>>)
    \o <<[el |-> "code", space_before |-> IF block.language # "" THEN 3 ELSE 6,
          runs |-> [i \in 1..Len(block.code) |->
                       RunFont(block.code[i], CODE_FONT_NAME, CODE_FONT_SIZE,
                               FALSE, FALSE)]]>>

\* _render_table, line 430: the number of columns of the grid
NumCols(block) ==
    IF block.headers # <<>> THEN Len(block.headers)
    ELSE IF block.rows # <<>> THEN Len(block.rows[1]) ELSE 0

\* line 434: the number of rows of the grid
NumRows(block) == (IF block.headers # <<>> THEN 1 ELSE 0) + Len(block.rows)

\* the loops of lines 440-458 without the test of lines 451-452
CellsAddressed_NoBreak(block) ==
    {[row |-> 1, col |-> c, text |-> block.headers[c], bold |-> TRUE] :
        c \in 1..Len(block.headers)}
    \cup UNION {{[row |-> (IF block.headers # <<>> THEN 1 ELSE 0) + r, col |-> c,
                  text |-> block.rows[r][c], bold |-> FALSE] :
                     c \in 1..Len(block.rows[r])} :
                 r \in 1..Len(block.rows)}

\* lines 440-458: the calls of table.cell(row_idx, col_idx) with the text
\* written into the cell; rows and columns are counted from 1 here
CellsAddressed(block) ==
    {[row |-> 1, col |-> c, text |-> block.headers[c], bold |-> TRUE] :
        c \in 1..Len(block.headers)}
    \cup UNION {{[row |-> (IF block.headers # <<>> THEN 1 ELSE 0) + r, col |-> c,
                  text |-> block.rows[r][c], bold |-> FALSE] :
                     c \in 1..Min(Len(block.rows[r]), NumCols(block))} :
                 r \in 1..Len(block.rows)}

\* table.cell raises IndexError for a cell that is not in the grid
TableRaises(block) ==
    NumCols(block) > 0
    /\ \E w \in CellsAddressed(block) : w.row > NumRows(block) \/ w.col > NumCols(block)

\* _render_table, lines 428-458: the grid with the text of each cell
RenderTable(block) ==
    LET written == CellsAddressed(block)
        cell(r, c) ==
            IF \E w \in written : w.row = r /\ w.col = c
            THEN (CHOOSE w \in written : w.row = r /\ w.col = c).text
            ELSE ""
    IN  IF NumCols(block) = 0 THEN <<>>
        ELSE <<[el |-> "table", rows |-> NumRows(block), cols |-> NumCols(block),
                header |-> block.headers # <<>>,
                cells |-> [r \in 1..NumRows(block) |->
                              [c \in 1..NumCols(block) |-> cell(r, c)]]]>>

\* _render_blockquote
RenderBlockquote(block) ==
    <<[el |-> "blockquote",
       runs |-> [i \in 1..Len(block.runs) |->
                    RunFont(block.runs[i].text, FONT_NAME, FONT_SIZE,
                            block.runs[i].bold, TRUE)]]>>


-----------------------------------------------------------------------------
(* docx_builder.py: images.  What the network answers for a URL is not     *)
(* decided by the program: Responses are the answers urlopen can give.     *)

\* docx_builder.py:490  resp.read(5 * 1024 * 1024), in megabytes
ReadCapMB == 5

Failure(status) == [status |-> status, size |-> 0, format |-> ""]
Content(size, format) == [status |-> "ok", size |-> size, format |-> format]

Responses ==
    {Failure("timeout"), Failure("http_404"), Failure("error"),
     Content(1, "png"), Content(1, "html"), Content(ReadCapMB + 1, "png")}

\* DownloadImage without the scheme test of line 484
DownloadImage_AnyScheme(url, resp) ==
    IF resp.status # "ok"
    THEN None
    ELSE [size |-> Min(resp.size, ReadCapMB), format |-> resp.format,
          truncated |-> resp.size > ReadCapMB]

\* _download_image: None, or the BytesIO of at most ReadCapMB megabytes
DownloadImage(url, resp) ==
    IF UrlText(url) = "" \/ url.prefix \notin {"http://", "https://"}
    THEN None
    ELSE IF resp.status # "ok"
    THEN None                                   \* except Exception: return None
    ELSE [size |-> Min(resp.size, ReadCapMB), format |-> resp.format,
          truncated |-> resp.size > ReadCapMB]

\* doc.add_picture (python-docx): raises on a stream it does not recognise
\* as an image; a stream cut short by the read cap is embedded or rejected
\* depending on where the cut falls (lib_accepts)
AddPictureRaises(image_data, lib_accepts) ==
    \/ image_data.format \notin {"png", "jpeg"}
    \/ image_data.truncated /\ ~lib_accepts

\* docx_builder.py:471 "[Izobrazhenie: {alt or url}]"
ImagePlaceholder(block) ==
    [el |-> "image_placeholder", align |-> "center",
     runs |-> <<RunFont("[Izobrazhenie: " \o Or(block.alt, UrlText(block.url)) \o "]",
                        FONT_NAME, FONT_SIZE, FALSE, TRUE)>>]

ImageCaption(block) ==
    IF block.alt # ""
    THEN <<[el |-> "image_caption", align |-> "center",
            runs |-> <<RunFont(block.alt, FONT_NAME, 12, FALSE, TRUE)>>]>>
    ELSE <<>>

\* _render_image: the elements added, or the exception of add_picture
RenderImage(block, resp, lib_accepts) ==
    LET image_data == DownloadImage(block.url, resp)
    IN  IF image_data # None
        THEN IF AddPictureRaises(image_data, lib_accepts)
             THEN [raised |-> "UnrecognizedImageError", elems |-> <<>>]
             ELSE [raised |-> "",
                   elems |-> <<[el |-> "picture", align |-> "center", width |-> 14,
                                data |-> image_data]>>
                             \o ImageCaption(block)]
        ELSE [raised |-> "", elems |-> <<ImagePlaceholder(block)>> \o ImageCaption(block)]

\* whether rendering the block reaches urlopen (docx_builder.py:484-489)
UrlOpened(block) ==
    /\ block.type = "image"
    /\ UrlText(block.url) # ""
    /\ block.url.prefix \in {"http://", "https://"}

\* _render_blocks, lines 273-300: the routine chosen by the block's type
Routine(block) ==
    CASE block.type = "heading" -> "_render_heading"
      [] block.type = "paragraph" -> "_render_paragraph"
      [] block.type = "list" -> "_render_list"
      [] block.type = "code" -> "_render_code_block"
      [] block.type = "table" -> "_render_table"
      [] block.type = "image" -> "_render_image"
      [] block.type = "blockquote" -> "_render_blockquote"
      [] OTHER -> ""

\* _render_blocks: one iteration of the loop of line 272
RenderBlock(block, cs, resp, lib_accepts) ==
    CASE block.type = "heading" ->
            LET n == SectionNumber(cs, block.level)
            IN  [raised |-> "", counters |-> n.counters,
                 elems |-> RenderHeading(block, n.num)]
      [] block.type = "paragraph" ->
            [raised |-> "", counters |-> cs, elems |-> RenderParagraph(block)]
      [] block.type = "list" ->
            [raised |-> "", counters |-> cs, elems |-> RenderList(block)]
      [] block.type = "code" ->
            [raised |-> "", counters |-> cs, elems |-> RenderCodeBlock(block)]
      [] block.type = "table" ->
            IF TableRaises(block)
            THEN [raised |-> "IndexError", counters |-> cs, elems |-> <<>>]
            ELSE [raised |-> "", counters |-> cs, elems |-> RenderTable(block)]
      [] block.type = "image" ->
            LET r == RenderImage(block, resp, lib_accepts)
            IN  [raised |-> r.raised, counters |-> cs, elems |-> r.elems]
      [] block.type = "blockquote" ->
            [raised |-> "", counters |-> cs, elems |-> RenderBlockquote(block)]
      [] OTHER -> [raised |-> "", counters |-> cs, elems |-> <<>>]

-----------------------------------------------------------------------------
(* docx_builder.py: build_docx, one action per statement of its body.      *)

\* str(datetime.now().year) at the time of the call
Years == {"2025", "2026"}

NewDocument == [page |-> "default", style |-> "default", elems |-> <<>>,
                footer |-> FALSE]

\* lines 31-33: Document(), setup_page, setup_default_style
SetupDocument ==
    /\ pc = "setup"
    /\ doc' = [NewDocument EXCEPT !.page = "A4 30/15/20/20 portrait",
                                  !.style = "Times New Roman 14 justified 1.25 1.5"]
    /\ steps' = Append(steps, "setup")
    /\ pc' = "title"
    /\ UNCHANGED <<blocks, metadata, work_type, idx, counters, buf, exc, net, fmVars, botVars, tree>>

\* the defaults of lines 77-85 stored in the Metadata object
MetadataAfterTitlePage_StoresDefaults(meta) ==
    [meta EXCEPT !.university = Or(@, DEFAULT_UNIVERSITY),
                 !.institute = Or(@, DEFAULT_INSTITUTE),
                 !.department = Or(@, DEFAULT_DEPARTMENT),
                 !.group = Or(@, DEFAULT_GROUP),
                 !.city = Or(@, DEFAULT_CITY)]

\* _add_title_page, lines 77-90: "university = meta.university or ..." and
\* the ten lines after it bind local names; no attribute of meta is assigned
MetadataAfterTitlePage(meta) == meta

\* line 35
TitlePageStep ==
    /\ pc = "title"
    /\ \E now_year \in Years :
          doc' = [doc EXCEPT !.elems = @ \o AddTitlePage(metadata, work_type, now_year)]
    /\ metadata' = MetadataAfterTitlePage(metadata)
    /\ steps' = Append(steps, "title_page")
    /\ pc' = "break1"
    /\ UNCHANGED <<blocks, work_type, idx, counters, buf, exc, net, fmVars, botVars, tree>>

\* lines 36 and 38
PageBreakStep ==
    /\ pc \in {"break1", "break2"}
    /\ doc' = [doc EXCEPT !.elems = Append(@, PageBreak)]
    /\ steps' = Append(steps, "page_break")
    /\ pc' = IF pc = "break1" THEN "toc" ELSE "body"
    /\ UNCHANGED <<blocks, metadata, work_type, idx, counters, buf, exc, net, fmVars, botVars, tree>>

\* line 37
TocStep ==
    /\ pc = "toc"
    /\ doc' = [doc EXCEPT !.elems = @ \o AddToc(blocks)]
    /\ steps' = Append(steps, "toc")
    /\ pc' = "break2"
    /\ UNCHANGED <<blocks, metadata, work_type, idx, counters, buf, exc, net, fmVars, botVars, tree>>

\* line 39: _render_blocks, one block per step; an exception of a rendering
\* routine leaves build_docx
RenderBlocksStep ==
    /\ pc = "body"
    /\ IF idx = Len(blocks)
       THEN /\ pc' = "footer"
            /\ UNCHANGED <<doc, idx, counters, steps, exc, net>>
       ELSE \E resp \in Responses, lib_accepts \in BOOLEAN :
               LET r == RenderBlock(blocks[idx + 1], counters, resp, lib_accepts)
               IN  /\ steps' = Append(steps, Routine(blocks[idx + 1]))
                   /\ idx' = idx + 1
                   /\ counters' = r.counters
                   /\ doc' = [doc EXCEPT !.elems = @ \o r.elems]
                   /\ exc' = r.raised
                   /\ net' = IF UrlOpened(blocks[idx + 1]) THEN resp ELSE None
                   /\ pc' = IF r.raised # "" THEN "failed" ELSE "body"
    /\ UNCHANGED <<blocks, metadata, work_type, buf, fmVars, botVars, tree>>

\* line 40: _add_page_numbers
PageNumbersStep ==
    /\ pc = "footer"
    /\ doc' = [doc EXCEPT !.footer = TRUE]
    /\ steps' = Append(steps, "page_numbers")
    /\ pc' = "save"
    /\ UNCHANGED <<blocks, metadata, work_type, idx, counters, buf, exc, net, fmVars, botVars, tree>>

\* lines 42-45: doc.save(buf); return buf
SaveStep ==
    /\ pc = "save"
    /\ buf' = doc
    /\ steps' = Append(steps, "save")
    /\ pc' = "done"
    /\ UNCHANGED <<blocks, metadata, work_type, doc, idx, counters, exc, net, fmVars, botVars, tree>>

BuildNext ==
    \/ SetupDocument
    \/ TitlePageStep
    \/ PageBreakStep
    \/ TocStep
    \/ RenderBlocksStep
    \/ PageNumbersStep
    \/ SaveStep

-----------------------------------------------------------------------------
(* Inputs of build_docx.                                                   *)

RECURSIVE SeqsUpTo(_, _)
SeqsUpTo(S, n) ==
    IF n = 0 THEN {<<>>}
    ELSE LET shorter == SeqsUpTo(S, n - 1)
         IN  shorter \cup {Append(q, x) : q \in {t \in shorter : Len(t) = n - 1}, x \in S}

PlainRun(text) == Run(text, FALSE, FALSE, FALSE)

BlockUniverse ==
    {HeadingBlock(1, "intro"), HeadingBlock(2, "Usage"),
     ParagraphBlock(<<PlainRun("Some "), Run("bold", TRUE, FALSE, FALSE)>>),
     ListBlock(TRUE, <<<<PlainRun("one")>>, <<Run("x", FALSE, FALSE, TRUE)>>>>),
     CodeBlock("python", <<"a = 1", "b = 2">>),
     TableBlock(<<"h1", "h2">>, <<<<"a", "b", "c">>, <<"d">>>>),
     BlockquoteBlock(<<Run("q", TRUE, FALSE, FALSE)>>),
     ImageBlock("", Url("", "")),
     ImageBlock("pic", Url("data:", "xyz")),
     ImageBlock("", Url("http://", "h/a.png")),
     ImageBlock("pic", Url("https://", "h/a.png"))}

FullMetadata ==
    [Metadata EXCEPT !.title = "X", !.author = "Ivanov", !.teacher = "Petrov",
                     !.year = "2024", !.work_number = "3"]

InitBuild ==
    /\ pc = "setup"
    /\ blocks \in SeqsUpTo(BlockUniverse, MaxBlocks)
    /\ metadata \in {Metadata, FullMetadata}
    /\ work_type \in {"lab", "report", "essay"}
    /\ doc = None
    /\ idx = 0
    /\ counters = <<0, 0, 0>>
    /\ steps = <<>>
    /\ buf = None
    /\ exc = ""
    /\ net = None
    /\ fm_text = <<>>
    /\ loaded = None
    /\ fm = None
    /\ conv = [c \in {1} |-> "END"]
    /\ user_data = <<>>
    /\ out = <<>>
    /\ event = None
    /\ caller = 0
    /\ tree = <<>>

SpecBuild == InitBuild /\ [][BuildNext]_vars

\* h1, h2, h3 and the deepest Markdown heading, h6
HeadingUniverse == {HeadingBlock(l, "intro") : l \in {1, 2, 3, 6}}

InitNum ==
    /\ pc = "setup"
    /\ blocks \in SeqsUpTo(HeadingUniverse, MaxHeadings)
    /\ metadata = FullMetadata
    /\ work_type = "lab"
    /\ doc = None
    /\ idx = 0
    /\ counters = <<0, 0, 0>>
    /\ steps = <<>>
    /\ buf = None
    /\ exc = ""
    /\ net = None
    /\ fm_text = <<>>
    /\ loaded = None
    /\ fm = None
    /\ conv = [c \in {1} |-> "END"]
    /\ user_data = <<>>
    /\ out = <<>>
    /\ event = None
    /\ caller = 0
    /\ tree = <<>>

SpecNum == InitNum /\ [][BuildNext]_vars

-----------------------------------------------------------------------------
(* extract_frontmatter on its own: every text of at most MaxTextLen tokens *)
(* and, when a header is matched, every answer of yaml.safe_load.          *)

FullMapping ==
    [k \in MetaKeys |->
        CASE k = "title" -> PyStr("X")
          [] k = "author" -> PyStr("Y")
          [] k = "group" -> PyStr("G-1")
          [] k = "teacher" -> PyStr("T")
          [] k = "subject" -> PyStr("S")
          [] k = "university" -> PyStr("U")
          [] k = "year" -> PyInt(2024)
          [] k = "work_number" -> PyInt(3)
          [] k = "institute" -> PyStr("I")
          [] k = "department" -> PyStr("D")
          [] k = "city" -> PyStr("C")]

\* what yaml.safe_load can answer for a header with something in it
YamlResults ==
    {YamlError("mapping values are not allowed here"),
     YamlValue(PyNone),
     YamlValue(PyStr("just text")),
     YamlValue(PyInt(0)),
     YamlValue(PyInt(42)),
     YamlValue(PyList(<<PyStr("a")>>)),
     YamlValue(EmptyDict),
     YamlValue(PyDict([k \in {"title", "author"} |->
                          IF k = "title" THEN PyStr("X") ELSE PyStr("Y")])),
     YamlValue(PyDict([k \in {"title", "year", "foo"} |->
                          CASE k = "title" -> PyNone
                            [] k = "year" -> PyInt(2024)
                            [] k = "foo" -> PyStr("bar")])),
     YamlValue(PyDict([k \in {"group", "tags", "draft"} |->
                          CASE k = "group" -> PyList(<<PyInt(1), PyStr("b")>>)
                            [] k = "tags" -> PyStr("t")
                            [] k = "draft" -> PyBool(TRUE)])),
     YamlValue(PyDict(FullMapping))}

\* yaml.safe_load(header): an empty or all-whitespace stream holds no
\* document and loads as None
YamlAnswers(header) ==
    IF AllWS(header, 1, Len(header)) THEN {YamlValue(PyNone)} ELSE YamlResults

\* one call of extract_frontmatter(fm_text)
ExtractFrontmatterCall ==
    /\ pc = "idle"
    /\ fm = None
    /\ LET m == FrontmatterMatch(fm_text)
       IN  \E y \in (IF m = None THEN {None} ELSE YamlAnswers(m.group)) :
              /\ loaded' = y
              /\ fm' = ExtractFrontmatter(fm_text, y)
    /\ UNCHANGED <<fm_text, buildVars, botVars, tree>>

InitFM ==
    /\ pc = "idle"
    /\ blocks = <<>>
    /\ metadata = Metadata
    /\ work_type = "lab"
    /\ doc = None
    /\ idx = 0
    /\ counters = <<0, 0, 0>>
    /\ steps = <<>>
    /\ buf = None
    /\ exc = ""
    /\ net = None
    /\ fm_text \in {<<>>} \cup {<<first>> \o rest : first \in {"---", "x"},
                                                  rest \in SeqsUpTo(Tokens, MaxTextLen - 1)}
    /\ loaded = None
    /\ fm = None
    /\ conv = [c \in {1} |-> "END"]
    /\ user_data = <<>>
    /\ out = <<>>
    /\ event = None
    /\ caller = 0
    /\ tree = <<>>

FMNext == ExtractFrontmatterCall

SpecFM == InitFM /\ [][FMNext]_vars


-----------------------------------------------------------------------------
(* main.py: the conversation.  One user talks to the bot; conv holds the   *)
(* state of the ConversationHandler per chat, user_data is the user's      *)
(* context.user_data.  Updates are handled one at a time.                  *)

END == "END"                        \* ConversationHandler.END
EDIT_META == "EDIT_META"            \* main.py:39
EDITING_FIELD == "EDITING_FIELD"
REPORT_INPUT == "REPORT_INPUT"

KEY_MD_TEXT == "md_text"            \* main.py:42-46
KEY_METADATA == "metadata"
KEY_BLOCKS == "blocks"
KEY_WORK_TYPE == "work_type"
KEY_EDITING_FIELD == "editing_field"

\* main.py:49  META_FIELDS: key -> input prompt (Cyrillic in the source)
META_FIELDS ==
    [title |-> "Vvedite nazvanie raboty:",
     author |-> "Vvedite FIO studenta (naprimer: Ivanov Ivan Ivanovich):",
     group |-> "Vvedite nomer gruppy (naprimer: IZ-41):",
     teacher |-> "Vvedite FIO prepodavatelya (naprimer: Petrov Petr Petrovich):",
     subject |-> "Vvedite nazvanie predmeta:",
     work_number |-> "Vvedite nomer raboty:"]

\* main.py:59  WORK_TYPE_LABELS
WORK_TYPE_LABELS ==
    [lab |-> "Laboratornaya rabota", coursework |-> "Kursovaya rabota",
     practice |-> "Otchet po praktike", report |-> "Otchet"]

\* dict operations on user_data
DictSet(d, key, value) ==
    [k \in DOMAIN d \cup {key} |-> IF k = key THEN value ELSE d[k]]
DictSetDefault(d, key, value) == IF key \in DOMAIN d THEN d ELSE DictSet(d, key, value)
DictPop(d, keys) == [k \in DOMAIN d \ keys |-> d[k]]
EmptyDictionary == [k \in {} |-> ""]

\* a message the bot sends: the Telegram method and the text
Msg(method, text) == [method |-> method, text |-> text]

Dash == "-"                         \* the em dash of the source

\* _build_dashboard_text, main.py:69-82
BuildDashboardText(meta, wt) ==
    "Dannye titulnogo lista:\n\n"
    \o "Tip raboty: " \o Get(WORK_TYPE_LABELS, wt, Dash) \o "\n"
    \o "Nazvanie: " \o Or(meta.title, Dash) \o "\n"
    \o "Student: " \o Or(meta.author, Dash) \o "\n"
    \o "Gruppa: " \o Or(meta.group, Dash) \o "\n"
    \o "Prepodavatel: " \o Or(meta.teacher, Dash) \o "\n"
    \o "Predmet: " \o Or(meta.subject, Dash) \o "\n"
    \o "Nomer raboty: " \o Or(meta.work_number, Dash) \o "\n"
    \o "\nNazhmite na pole, chtoby izmenit znachenie."

\* _send_dashboard, main.py:261-272: the message it sends
SendDashboard(ud, edit) ==
    Msg(IF edit THEN "edit_text" ELSE "reply_text",
        BuildDashboardText(Get(ud, KEY_METADATA, Metadata), Get(ud, KEY_WORK_TYPE, "lab")))

\* what a handler leaves behind: the state it returns, user_data, the
\* messages it sent, and the exception that left it ("" for none; the
\* conversation then stays in the state it was in)
Result(state, ud, msgs, raised) ==
    [state |-> state, user_data |-> ud, out |-> msgs, raised |-> raised]

\* str.strip() of a text is empty: it holds whitespace only
Blank(text) == AllWS(text, 1, Len(text))

EmptyDocumentText ==
    "Dokument pust - ne naydeno ni odnogo bloka soderzhimogo.\nProverte format Markdown."

\* "if not blocks", lines 196, 243 and 392, with the test left out
NoBlocks_Never(parsed) == FALSE

\* "if not blocks", lines 196, 243 and 392
NoBlocks(parsed) == parsed.blocks = <<>>

\* the handlers' "except ValueError" made to show the dashboard
FrontmatterErrorReply_Dashboard(ud, sent, method, text) ==
    [state |-> EDIT_META, user_data |-> ud,
     out |-> Append(sent, SendDashboard(ud, FALSE)), raised |-> ""]

\* "except ValueError as e", lines 192-194, 239-241 and 388-390: the
\* message goes out and the conversation ends
FrontmatterErrorReply(ud, sent, method, text) ==
    [state |-> END, user_data |-> ud, out |-> Append(sent, Msg(method, text)),
     raised |-> ""]

\* lines 203-206, 250-253 and 396-399: the parse result goes to user_data
Store(ud, name, parsed) ==
    DictSetDefault(
        DictSet(DictSet(DictSet(ud, KEY_MD_TEXT, name), KEY_METADATA, parsed.meta),
                KEY_BLOCKS, parsed.blocks),
        KEY_WORK_TYPE, "lab")

\* text_entry, lines 192-208: parse_markdown has returned or raised
TextEntryParsed(state, ud, d, parsed) ==
    IF parsed.raised = "ValueError"
    THEN FrontmatterErrorReply(ud, <<>>, "reply_text", parsed.message)
    ELSE IF parsed.raised # ""
    THEN Result(state, ud, <<>>, parsed.raised)
    ELSE IF NoBlocks(parsed)
    THEN Result(END, ud, <<Msg("reply_text", EmptyDocumentText)>>, "")
    ELSE Result(EDIT_META, Store(ud, d.name, parsed),
                <<SendDashboard(Store(ud, d.name, parsed), FALSE)>>, "")

\* text_entry, main.py:183-208; d is the message text with what the
\* libraries make of it.  A text of the model that is not blank holds "---"
\* or a stretch of other characters and is at least 3 characters long.
TextEntry(state, ud, d) ==
    IF Blank(d.text)
    THEN Result(END, ud, <<Msg("reply_text",
                "Soobshchenie slishkom korotkoe. Otpravte Markdown-tekst.")>>, "")
    ELSE TextEntryParsed(state, ud, d, ParseMarkdown(d.text, d.loaded, d.ast))

\* an uploaded file: whether its size is over MAX_FILE_SIZE, the extension
\* of its name, and its decoded content
File(too_big, ext, content) == [too_big |-> too_big, ext |-> ext, content |-> content]

\* document_entry, lines 239-256: parse_markdown has returned or raised
DocumentEntryParsed(state, ud, d, parsed) ==
    IF parsed.raised = "ValueError"
    THEN FrontmatterErrorReply(ud, <<>>, "reply_text", parsed.message)
    ELSE IF parsed.raised # ""
    THEN Result(state, ud, <<>>, parsed.raised)
    ELSE IF NoBlocks(parsed)
    THEN Result(END, ud, <<Msg("reply_text", EmptyDocumentText)>>, "")
    ELSE Result(EDIT_META, Store(ud, d.name, parsed),
                <<Msg("reply_text", "Fayl poluchen!"),
                  SendDashboard(Store(ud, d.name, parsed), FALSE)>>, "")

\* document_entry, main.py:213-256 (filters.Document.ALL: the message has a
\* document)
DocumentEntry(state, ud, f) ==
    IF f.too_big
    THEN Result(END, ud, <<Msg("reply_text",
           "Fayl slishkom bolshoy (maksimum 1 MB). Otpravte fayl menshego razmera.")>>, "")
    ELSE IF f.ext \notin {".md", ".txt", ".markdown"}
    THEN Result(END, ud, <<Msg("reply_text",
           "Podderzhivayutsya fayly .md, .markdown i .txt.\nOtpravte fayl v odnom iz etikh formatov.")>>, "")
    ELSE DocumentEntryParsed(state, ud, f.content,
             ParseMarkdown(f.content.text, f.content.loaded, f.content.ast))

\* callback data: the part up to and including the colon, and the rest
Data(prefix, rest) == [prefix |-> prefix, rest |-> rest]

Answer == Msg("answer", "")          \* query.answer()

\* the text typed for a field: what str.strip() leaves of it, and whether
\* whitespace surrounded it
Typed(core, padded) == [core |-> core, padded |-> padded]
\* the text as typed, the surrounding whitespace kept
Strip_Keeps(typed) == IF typed.padded THEN " " \o typed.core \o " " ELSE typed.core
\* main.py:335  update.message.text.strip()
Strip(typed) == typed.core

\* field_text_received with get in place of the pop of line 334
FieldTextReceived_KeepsKey(ud, typed) ==
    LET field_key == Get(ud, KEY_EDITING_FIELD, "")
        value == Strip(typed)
        meta == Get(ud, KEY_METADATA, Metadata)
        ud2 == IF field_key # "" /\ value # "" /\ field_key \in DOMAIN meta
               THEN DictSet(ud, KEY_METADATA, [meta EXCEPT ![field_key] = value])
               ELSE ud
    IN  Result(EDIT_META, ud2, <<SendDashboard(ud2, FALSE)>>, "")

\* field_text_received, main.py:332-343
FieldTextReceived(ud, typed) ==
    LET field_key == Get(ud, KEY_EDITING_FIELD, "")
        popped == DictPop(ud, {KEY_EDITING_FIELD})
        value == Strip(typed)
        meta == Get(popped, KEY_METADATA, Metadata)
        ud2 == IF field_key # "" /\ value # "" /\ field_key \in DOMAIN meta
               THEN DictSet(popped, KEY_METADATA, [meta EXCEPT ![field_key] = value])
               ELSE popped
    IN  Result(EDIT_META, ud2, <<SendDashboard(ud2, FALSE)>>, "")

\* report_start, main.py:348-360; key_set: GEMINI_API_KEY is in the environment
ReportStart(ud, key_set) ==
    IF ~key_set
    THEN Result(END, ud, <<Msg("reply_text",
           "API klyuch Gemini ne nastroen. Dobavte GEMINI_API_KEY v .env fayl.")>>, "")
    ELSE Result(REPORT_INPUT, ud, <<Msg("reply_text",
           "Otpravte fayl (DOCX, PDF, TXT) ili tekst dlya generatsii otcheta.\n\n/cancel - otmena")>>, "")

\* _process_report, lines 388-402: parse_markdown has returned or raised
ProcessReportParsed(state, ud, d, parsed, status) ==
    IF parsed.raised = "ValueError"
    THEN FrontmatterErrorReply(ud, <<status>>, "edit_text",
                               "Oshibka razbora rezultata: " \o parsed.message)
    ELSE IF parsed.raised # ""
    THEN Result(state, ud, <<status>>, parsed.raised)
    ELSE IF NoBlocks(parsed)
    THEN Result(END, ud, <<status, Msg("edit_text",
                  "Ne udalos sgenerirovat otchet.")>>, "")
    ELSE Result(EDIT_META, Store(ud, d.name, parsed),
                <<status, Msg("edit_text", "Otchet sgenerirovan!"),
                  SendDashboard(Store(ud, d.name, parsed), FALSE)>>, "")

\* _process_report, main.py:365-373: the work types generate_report is
\* called with, none for a material under 10 characters
GenerateReportCalls(ud, chars) ==
    IF chars < 10 THEN <<>> ELSE <<Get(ud, KEY_WORK_TYPE, "lab")>>

\* report_file_received, main.py:414-441: _process_report is reached only
\* with the text extracted from an accepted file
ReportFileCalls(ud, f) ==
    IF f.too_big \/ f.ext \notin {".docx", ".pdf", ".txt"} \/ f.content.raised
    THEN <<>>
    ELSE GenerateReportCalls(ud, f.content.chars)

\* _process_report, main.py:363-402.  chars is len(text.strip()) of the
\* material; ai is what generate_report does: it raises, or it returns a
\* Markdown text
ProcessReport(state, ud, chars, ai) ==
    IF chars < 10
    THEN Result(END, ud, <<Msg("reply_text",
           "Nedostatochno materiala dlya generatsii otcheta (minimum 10 simvolov).")>>, "")
    ELSE IF ai.raised = "RuntimeError"
    THEN Result(END, ud, <<Msg("reply_text", "Generiruyu otchet..."),
                           Msg("edit_text", "Oshibka: " \o ai.message)>>, "")
    ELSE IF ai.raised # ""
    THEN Result(END, ud, <<Msg("reply_text", "Generiruyu otchet..."),
                           Msg("edit_text", "Oshibka generatsii, poprobuyte pozzhe.")>>, "")
    ELSE IF Blank(ai.markdown.text)
    THEN Result(END, ud, <<Msg("reply_text", "Generiruyu otchet..."),
                           Msg("edit_text", "Ne udalos sgenerirovat otchet.")>>, "")
    ELSE ProcessReportParsed(state, ud, ai.markdown,
             ParseMarkdown(ai.markdown.text, ai.markdown.loaded, ai.markdown.ast),
             Msg("reply_text", "Generiruyu otchet..."))

\* what extract_text does with a file: it raises, or it returns a text of
\* which  chars  is len(text.strip())
Extracted(raised, chars) == [raised |-> raised, chars |-> chars]

\* report_file_received, main.py:410-441
ReportFileReceived(state, ud, f, ai) ==
    IF f.too_big
    THEN Result(REPORT_INPUT, ud, <<Msg("reply_text",
           "Fayl slishkom bolshoy (maksimum 1 MB).")>>, "")
    ELSE IF f.ext \notin {".docx", ".pdf", ".txt"}
    THEN Result(REPORT_INPUT, ud, <<Msg("reply_text",
           "Podderzhivayutsya fayly .docx, .pdf, .txt.")>>, "")
    ELSE IF f.content.raised
    THEN Result(END, ud, <<Msg("reply_text", "Ne udalos izvlech tekst iz fayla.")>>, "")
    ELSE IF f.content.chars = 0
    THEN Result(END, ud, <<Msg("reply_text",
           "Ne udalos izvlech tekst iz fayla (vozmozhno, eto skan).")>>, "")
    ELSE ProcessReport(state, ud, f.content.chars, ai)

\* cancel_handler, main.py:477-481
CancelHandler ==
    Result(END, EmptyDictionary,
           <<Msg("reply_text", "Otmeneno. Otpravte Markdown zanovo.")>>, "")

\* re.sub(r'[^\w \-]', '_', title).strip() or "document", main.py:455-456,
\* on the titles of the model
SafeTitle(title) ==
    CASE title = "" -> "document"
      [] title = "Lab 1: sort" -> "Lab 1_ sort"
      [] title = "Ivanov I." -> "Ivanov I_"
      [] OTHER -> title

\* the generate button with the test of the teacher left out
MissingFieldAlert_AuthorOnly(meta) ==
    IF meta.author = "" THEN "Zapolnite FIO studenta!" ELSE ""

\* dashboard_callback, main.py:314-319: the alert of the generate button for
\* a Metadata it does not accept, "" when it accepts it ("not meta.author"
\* holds for the empty string only)
MissingFieldAlert(meta) ==
    IF meta.author = "" THEN "Zapolnite FIO studenta!"
    ELSE IF meta.teacher = "" THEN "Zapolnite FIO prepodavatelya!"
    ELSE ""

\* dashboard_callback, main.py:277-329.  The state "GENERATE" stands for
\* "return await _generate_and_send(...)": the call of build_docx follows.
DashboardCallback(ud, data) ==
    IF data.prefix = "field:" /\ data.rest = "work_type"
    THEN Result(EDIT_META, ud, <<Answer, Msg("edit_message_text", "Vyberite tip raboty:")>>, "")
    ELSE IF data.prefix = "field:" /\ data.rest \in DOMAIN META_FIELDS
    THEN Result(EDITING_FIELD, DictSet(ud, KEY_EDITING_FIELD, data.rest),
                <<Answer, Msg("edit_message_text",
                              META_FIELDS[data.rest] \o "\n\n/cancel - otmena")>>, "")
    ELSE IF data.prefix = "wt:"
    THEN LET ud2 == IF data.rest # "back" /\ data.rest \in DOMAIN WORK_TYPES
                    THEN DictSet(ud, KEY_WORK_TYPE, data.rest) ELSE ud
         IN  Result(EDIT_META, ud2, <<Answer, SendDashboard(ud2, TRUE)>>, "")
    ELSE IF data.prefix = "meta:" /\ data.rest = "generate"
    THEN IF MissingFieldAlert(Get(ud, KEY_METADATA, Metadata)) # ""
         THEN Result(EDIT_META, ud, <<Answer, Msg("answer_alert",
                       MissingFieldAlert(Get(ud, KEY_METADATA, Metadata)))>>, "")
         ELSE Result("GENERATE", ud, <<Answer, Msg("edit_message_text",
                       "Generiruyu dokument...")>>, "")
    ELSE IF data.prefix = "meta:" /\ data.rest = "cancel"
    THEN Result(END, EmptyDictionary, <<Answer, Msg("edit_message_text",
                  "Otmeneno. Otpravte Markdown zanovo.")>>, "")
    ELSE Result(EDIT_META, ud, <<Answer>>, "")

-----------------------------------------------------------------------------
(* The inputs of the conversation.  A document is a Markdown text with     *)
(* what the libraries make of it: loaded is yaml.safe_load's answer for    *)
(* its header (None when the text has none) and ast is the tree mistune    *)
(* builds from its body.                                                   *)

AstText(raw) == [type |-> "text", raw |-> raw]
AstParagraph(children) == [type |-> "paragraph", children |-> children]
AstHeading(level, children) ==
    [type |-> "heading", attrs |-> [level |-> level], style |-> "atx",
     children |-> children]
AstImage(children, url) ==
    [type |-> "image", children |-> children, attrs |-> [url |-> url]]
AstThematicBreak == [type |-> "thematic_break"]
AstBlankLine == [type |-> "blank_line"]

Document(name, text, answer, ast) ==
    [name |-> name, text |-> text, loaded |-> answer, ast |-> ast]

WithHeader == <<"---", "\n", "x", "\n", "---", "\n", "\n", "x">>

BodyAst ==
    <<AstHeading(1, <<AstText("intro")>>), AstBlankLine,
      AstParagraph(<<AstText("Some text")>>), AstBlankLine,
      AstParagraph(<<AstImage(<<AstText("pic")>>, Url("https://", "h/a.png"))>>)>>

Documents ==
    {Document("blank", <<" ">>, None, <<>>),
     Document("rule", <<"---">>, None, <<AstThematicBreak>>),
     Document("bad_yaml", WithHeader,
              YamlError("mapping values are not allowed here"), <<>>),
     Document("list_header", WithHeader, YamlValue(PyList(<<PyStr("a")>>)), <<>>),
     Document("header_only", <<"---", "\n", "x", "\n", "---", "\n">>,
              YamlValue(PyDict([k \in {"title"} |-> PyStr("X")])), <<>>),
     Document("full", WithHeader,
              YamlValue(PyDict([k \in {"title", "author", "teacher"} |->
                                   CASE k = "title" -> PyStr("Lab 1: sort")
                                     [] k = "author" -> PyStr("Ivanov")
                                     [] k = "teacher" -> PyStr("Petrov")])),
              BodyAst),
     Document("no_header", <<"x">>, None,
              <<AstHeading(2, <<AstText("Usage")>>),
                AstParagraph(<<AstText("Some text")>>)>>)}

Files ==
    {File(TRUE, ".md", CHOOSE d \in Documents : d.name = "full"),
     File(FALSE, ".pdf", CHOOSE d \in Documents : d.name = "full")}
    \cup {File(FALSE, ".md", d) : d \in Documents}

CallbackData ==
    {Data("field:", k) : k \in DOMAIN META_FIELDS \cup {"work_type", "year"}}
    \cup {Data("wt:", w) : w \in DOMAIN WORK_TYPES \cup {"back", "essay"}}
    \cup {Data("meta:", "generate"), Data("meta:", "cancel"), Data("", "noop")}

TypedTexts == {Typed("Ivanov I.", TRUE), Typed("", TRUE)}

Materials == {0, 5, 40}

AiAnswers ==
    {[raised |-> "RuntimeError", message |-> "GEMINI_API_KEY is not set"],
     [raised |-> "ValueError", message |-> "AI returned empty result"]}
    \cup {[raised |-> "", markdown |-> d] : d \in Documents}

ReportFiles ==
    {File(TRUE, ".pdf", Extracted(FALSE, 40)), File(FALSE, ".md", Extracted(FALSE, 40)),
     File(FALSE, ".pdf", Extracted(TRUE, 0)), File(FALSE, ".docx", Extracted(FALSE, 0)),
     File(FALSE, ".txt", Extracted(FALSE, 5)), File(FALSE, ".txt", Extracted(FALSE, 40))}

-----------------------------------------------------------------------------
(* The handlers as steps.  An update reaches the handler that the          *)
(* ConversationHandler of main.py:507-529 selects for the chat's state: an *)
(* entry point when the chat has no conversation, else a handler of the    *)
(* state or a fallback.                                                    *)

\* the handler returns: its state, user_data and messages take effect
Return(c, handler, input, r) ==
    /\ conv' = [conv EXCEPT ![c] = r.state]
    /\ user_data' = r.user_data
    /\ out' = r.out
    /\ event' = [chat |-> c, handler |-> handler, input |-> input, raised |-> r.raised]
    /\ UNCHANGED <<buildVars, fmVars, caller, tree>>

TextEntryCall ==
    /\ pc = "idle"
    /\ \E c \in DOMAIN conv, d \in Documents :
          /\ conv[c] = END
          /\ Return(c, "text_entry", d, TextEntry(conv[c], user_data, d))

DocumentEntryCall ==
    /\ pc = "idle"
    /\ \E c \in DOMAIN conv, f \in Files :
          /\ conv[c] = END
          /\ Return(c, "document_entry", f, DocumentEntry(conv[c], user_data, f))

\* _generate_and_send, main.py:446-453: build_docx is called
DashboardCallbackCall ==
    /\ pc = "idle"
    /\ \E c \in DOMAIN conv, data \in CallbackData :
          /\ conv[c] = EDIT_META
          /\ LET r == DashboardCallback(user_data, data)
             IN  IF r.state # "GENERATE"
                 THEN Return(c, "dashboard_callback", data, r)
                 ELSE /\ blocks' = Get(user_data, KEY_BLOCKS, <<>>)
                      /\ metadata' = Get(user_data, KEY_METADATA, Metadata)
                      /\ work_type' = Get(user_data, KEY_WORK_TYPE, "lab")
                      /\ pc' = "setup"
                      /\ doc' = None
                      /\ idx' = 0
                      /\ counters' = <<0, 0, 0>>
                      /\ steps' = <<>>
                      /\ buf' = None
                      /\ exc' = ""
                      /\ net' = None
                      /\ caller' = c
                      /\ out' = r.out
                      /\ event' = [chat |-> c, handler |-> "dashboard_callback",
                                   input |-> data, raised |-> ""]
                      /\ UNCHANGED <<conv, user_data, fmVars, tree>>

GenerationFailedText == "Oshibka pri generatsii dokumenta. Proverte format Markdown."

\* the except branch skipped: the document is sent whatever build_docx did
GenerateReply_AlwaysDocument(state, docx_buf, meta) ==
    [method |-> "reply_document", document |-> docx_buf,
     filename |-> SafeTitle(Or(meta.title, "document")) \o ".docx",
     text |-> "Gotovo!"]

\* _generate_and_send, main.py:452-465: the try block and its except branch
GenerateReply(state, docx_buf, meta) ==
    IF state = "done"
    THEN [method |-> "reply_document", document |-> docx_buf,
          filename |-> SafeTitle(Or(meta.title, "document")) \o ".docx",
          text |-> "Gotovo!"]
    ELSE Msg("reply_text", GenerationFailedText)

SessionKeys == {KEY_MD_TEXT, KEY_METADATA, KEY_BLOCKS, KEY_WORK_TYPE, KEY_EDITING_FIELD}

\* the finally block with the pop of the blocks left out
PopSession_KeepsBlocks(ud) == DictPop(ud, SessionKeys \ {KEY_BLOCKS})

\* the finally block with the pop of the work type left out
PopSession_KeepsWorkType(ud) == DictPop(ud, SessionKeys \ {KEY_WORK_TYPE})

\* _generate_and_send, main.py:466-471: the finally block
PopSession(ud) == DictPop(ud, SessionKeys)

\* _generate_and_send, main.py:446-474: build_docx has returned or raised
GenerateReturn ==
    /\ pc \in {"done", "failed"}
    /\ caller # 0
    /\ out' = Append(out, GenerateReply(pc, buf, metadata))
    /\ user_data' = PopSession(user_data)
    /\ conv' = [conv EXCEPT ![caller] = END]
    /\ caller' = 0
    /\ pc' = "idle"
    /\ blocks' = <<>>
    /\ metadata' = Metadata
    /\ work_type' = "lab"
    /\ doc' = None
    /\ idx' = 0
    /\ counters' = <<0, 0, 0>>
    /\ steps' = <<>>
    /\ buf' = None
    /\ exc' = ""
    /\ net' = None
    /\ UNCHANGED <<event, fmVars, tree>>

FieldTextReceivedCall ==
    /\ pc = "idle"
    /\ \E c \in DOMAIN conv, typed \in TypedTexts :
          /\ conv[c] = EDITING_FIELD
          /\ Return(c, "field_text_received", typed, FieldTextReceived(user_data, typed))

ReportStartCall ==
    /\ pc = "idle"
    /\ \E c \in DOMAIN conv, key_set \in BOOLEAN :
          /\ conv[c] = END
          /\ Return(c, "report_start", key_set, ReportStart(user_data, key_set))

\* report_text_received, main.py:405-407
ReportTextReceivedCall ==
    /\ pc = "idle"
    /\ \E c \in DOMAIN conv, chars \in Materials, ai \in AiAnswers :
          /\ conv[c] = REPORT_INPUT
          /\ Return(c, "report_text_received",
                    [chars |-> chars, ai |-> ai,
                     calls |-> GenerateReportCalls(user_data, chars)],
                    ProcessReport(conv[c], user_data, chars, ai))

ReportFileReceivedCall ==
    /\ pc = "idle"
    /\ \E c \in DOMAIN conv, f \in ReportFiles, ai \in AiAnswers :
          /\ conv[c] = REPORT_INPUT
          /\ Return(c, "report_file_received",
                    [file |-> f, ai |-> ai, calls |-> ReportFileCalls(user_data, f)],
                    ReportFileReceived(conv[c], user_data, f, ai))

\* /cancel is a fallback: it is looked at only for a chat in a conversation
CancelHandlerCall ==
    /\ pc = "idle"
    /\ \E c \in DOMAIN conv :
          /\ conv[c] # END
          /\ Return(c, "cancel_handler", "/cancel", CancelHandler)

\* one user in one chat, no conversation yet
Init ==
    /\ pc = "idle"
    /\ blocks = <<>>
    /\ metadata = Metadata
    /\ work_type = "lab"
    /\ doc = None
    /\ idx = 0
    /\ counters = <<0, 0, 0>>
    /\ steps = <<>>
    /\ buf = None
    /\ exc = ""
    /\ net = None
    /\ fm_text = <<>>
    /\ loaded = None
    /\ fm = None
    /\ conv = [c \in {1} |-> END]
    /\ user_data = EmptyDictionary
    /\ out = <<>>
    /\ event = None
    /\ caller = 0
    /\ tree = <<>>

Next ==
    \/ TextEntryCall
    \/ DocumentEntryCall
    \/ DashboardCallbackCall
    \/ FieldTextReceivedCall
    \/ ReportStartCall
    \/ ReportTextReceivedCall
    \/ ReportFileReceivedCall
    \/ CancelHandlerCall
    \/ SetupDocument
    \/ TitlePageStep
    \/ PageBreakStep
    \/ TocStep
    \/ RenderBlocksStep
    \/ PageNumbersStep
    \/ SaveStep
    \/ GenerateReturn

Spec == Init /\ [][Next]_vars

-----------------------------------------------------------------------------
(* Properties of build_docx.                                               *)

TocRows == SelectSeq(doc.elems, LAMBDA e : e.el = "toc_entry")
BodyHeadings == SelectSeq(doc.elems, LAMBDA e : e.el = "heading")
Levels == [k \in 1..Len(Headings(blocks)) |-> Headings(blocks)[k].level]

\* the numbering as the claim words it: counts of headings, with no counters
LastAtMost(k, maxLevel) ==
    LET S == {j \in 1..k : Levels[j] <= maxLevel}
    IN  IF S = {} THEN 0 ELSE CHOOSE j \in S : \A i \in S : i <= j
CountL1(k) == Cardinality({j \in 1..k : Levels[j] = 1})
CountL2(k) == Cardinality({j \in 1..k : Levels[j] = 2 /\ j > LastAtMost(k, 1)})
CountL3(k) == Cardinality({j \in 1..k : Levels[j] >= 3 /\ j > LastAtMost(k, 2)})
ClaimedNumber(k) ==
    IF Levels[k] = 1 THEN Str(CountL1(k))
    ELSE IF Levels[k] = 2 THEN Str(CountL1(k)) \o "." \o Str(CountL2(k))
    ELSE Str(CountL1(k)) \o "." \o Str(CountL2(k)) \o "." \o Str(CountL3(k))
ClaimedLine(k) ==
    ClaimedNumber(k) \o " "
    \o (IF Levels[k] = 1 THEN Upper(Headings(blocks)[k].text)
        ELSE Headings(blocks)[k].text)

\* C1: every table-of-contents entry and every body heading written so far
\* carries the section number the counting rule gives it: level 1 the count
\* of level-1 headings so far, level 2 "L1.L2" with L2 counted since the
\* last level-1 heading, level 3 or deeper "L1.L2.L3" with L3 counted since
\* the last heading of level 1 or 2.
C1_SectionNumbers ==
    doc # None =>
        /\ \A k \in 1..Len(TocRows) : TocRows[k].runs[1].text = ClaimedLine(k)
        /\ \A k \in 1..Len(BodyHeadings) : BodyHeadings[k].text = ClaimedLine(k)

\* C1 witness: levels [1,2,2,1,3] are numbered 1, 1.1, 1.2, 2, 2.0.1 in both
\* passes of a finished call.
C1_Witness ==
    /\ pc = "done"
    /\ Levels = <<1, 2, 2, 1, 3>>
    /\ [k \in 1..Len(TocRows) |-> TocRows[k].runs[1].text]
         = <<"1 INTRO", "1.1 intro", "1.2 intro", "2 INTRO", "2.0.1 intro">>
    /\ [k \in 1..Len(BodyHeadings) |-> BodyHeadings[k].text]
         = <<"1 INTRO", "1.1 intro", "1.2 intro", "2 INTRO", "2.0.1 intro">>

CallOver == pc \in {"done", "failed"}

\* C2: once a call of build_docx is over, the table of contents and the
\* body hold one entry per HeadingBlock each, and the i-th entry and the
\* i-th body heading carry the same number and text.
C2_TocBodySynchronized ==
    CallOver =>
        /\ Len(TocRows) = Len(Headings(blocks))
        /\ Len(BodyHeadings) = Len(Headings(blocks))
        /\ \A i \in 1..Len(Headings(blocks)) :
              TocRows[i].runs[1].text = BodyHeadings[i].text

\* C3: once a call of build_docx is over, it has performed setup, title
\* page, page break, table of contents, page break, one rendering routine
\* per block in block order, page numbers and serialization, each once and
\* in this order.
C3_FixedPipeline ==
    CallOver =>
        steps = <<"setup", "title_page", "page_break", "toc", "page_break">>
                \o [i \in 1..Len(blocks) |-> Routine(blocks[i])]
                \o <<"page_numbers", "save">>

\* the step of _render_blocks that renders an image block
ImageStep == pc = "body" /\ idx < Len(blocks) /\ blocks[idx + 1].type = "image"
DegradedToPlaceholder ==
    /\ doc'.elems = doc.elems \o <<ImagePlaceholder(blocks[idx + 1])>>
                              \o ImageCaption(blocks[idx + 1])
    /\ exc' = ""
    /\ pc' = "body"
    /\ idx' = idx + 1

\* C8: rendering an image block whose URL is empty or not http(s), or whose
\* fetch times out, answers an HTTP error or raises, adds the italic
\* placeholder line, raises nothing and goes on to the next block.
C8_ImageFallback ==
    [][(ImageStep /\ idx' = idx + 1
        /\ (~UrlOpened(blocks[idx + 1]) \/ net'.status # "ok"))
       => DegradedToPlaceholder]_vars

\* C8 witness: an image whose fetch answered 404 was rendered as the
\* placeholder and rendering went on.
C8_Witness ==
    /\ pc = "body" /\ idx = 1 /\ Len(blocks) = 2
    /\ blocks[1].type = "image"
    /\ net # None /\ net.status = "http_404"
    /\ doc.elems[Len(doc.elems)] = ImagePlaceholder(blocks[1])

\* C9: an image whose content is larger than the read cap is rendered as
\* the placeholder line, as a failed fetch is.
C9_OversizedIsUnavailable ==
    [][(ImageStep /\ idx' = idx + 1 /\ UrlOpened(blocks[idx + 1])
        /\ net'.status = "ok" /\ net'.size > ReadCapMB)
       => DegradedToPlaceholder]_vars

\* C10: an image whose bytes were fetched in full but are no picture the
\* document library can embed is rendered as the placeholder line and the
\* call goes on.
C10_UnembeddableDegrades ==
    [][(ImageStep /\ idx' = idx + 1 /\ UrlOpened(blocks[idx + 1])
        /\ net'.status = "ok" /\ net'.size <= ReadCapMB
        /\ net'.format \notin {"png", "jpeg"})
       => DegradedToPlaceholder]_vars

-----------------------------------------------------------------------------
(* Properties of extract_frontmatter.                                      *)

HeaderRecognised == fm # None /\ fm.matched

ReturnsPair ==
    /\ fm.raised = ""
    /\ DOMAIN fm.meta = MetaKeys
    /\ fm.body \in Seq(Tokens)

FailsWithFrontmatterError ==
    /\ fm.raised = "ValueError"
    /\ loaded.raised = "YAMLError"
    /\ fm.message = "Oshibka v YAML-zagolovke dokumenta: " \o loaded.problem
                    \o "\nProverte format YAML mezhdu markerami ---."

\* C6: for every text in which a delimited header is recognised,
\* extract_frontmatter either returns (Metadata, body) or fails with the
\* frontmatter error whose message carries the decoder's complaint and the
\* instruction to check the --- delimiters, whatever the header decodes to;
\* no other kind of failure escapes to the caller.
C6_TwoOutcomes ==
    HeaderRecognised => ReturnsPair \/ FailsWithFrontmatterError

DecodesToMapping ==
    /\ HeaderRecognised
    /\ loaded.raised = ""
    /\ loaded.value.t = "dict"

\* each of the eleven fields is str() of the header's value for its key, ""
\* when the key is absent; the other keys of the header appear nowhere
FieldsFromHeader ==
    /\ fm.raised = ""
    /\ DOMAIN fm.meta = MetaKeys
    /\ \A k \in MetaKeys :
          fm.meta[k] = IF k \in DOMAIN loaded.value.v
                       THEN PyStrOf(loaded.value.v[k]) ELSE ""

\* the text splits as  --- ws \n header \n --- ws \n body : token i ends the
\* opening line, j starts the closing line and e ends what is taken off
\* with it
SplitAt(i, j, e) ==
    /\ i < j /\ j + 1 < e
    /\ fm_text[1] = "---"
    /\ fm_text[i] = "\n" /\ AllWS(fm_text, 2, i - 1)
    /\ fm.header = SubSeq(fm_text, i + 1, j - 1)
    /\ fm_text[j] = "\n" /\ fm_text[j + 1] = "---"
    /\ fm_text[e] = "\n" /\ AllWS(fm_text, j + 2, e - 1)
    /\ fm.body = SubSeq(fm_text, e + 1, Len(fm_text))

Positions == 1..Len(fm_text)

\* the body starts right after the newline that ends the closing line
BodyAfterClosingLine ==
    \E i, j, e \in Positions :
       /\ SplitAt(i, j, e)
       /\ \A k \in (j + 2)..(e - 1) : fm_text[k] # "\n"

\* the body starts after the closing line and the whitespace-only lines
\* that directly follow it
BodyAfterClosingLineAndBlankLines ==
    \E i, j, e \in Positions :
       /\ SplitAt(i, j, e)
       /\ ~ \E d \in (e + 1)..Len(fm_text) :
               fm_text[d] = "\n" /\ AllWS(fm_text, e + 1, d - 1)

\* C7 as stated: for every header that decodes to a key-value mapping, each
\* of the eleven Metadata fields is the string form of the header's value
\* for that key, "" when the key is absent, keys other than the eleven
\* change nothing, and the body is exactly the text after the closing
\* delimiter line.
C7_BodyExactlyAfterClosingLine ==
    DecodesToMapping => FieldsFromHeader /\ BodyAfterClosingLine

\* C7 (amended): the fields as stated; the body is the text after the
\* closing delimiter line less the whitespace-only lines that directly
\* follow that line.
C7_FieldsAndBody ==
    DecodesToMapping => FieldsFromHeader /\ BodyAfterClosingLineAndBlankLines

\* a header with all eleven keys and a blank line after the closing line
C7_Witness ==
    /\ DecodesToMapping
    /\ loaded.value.v = FullMapping
    /\ fm.raised = ""
    /\ fm.meta.year = "2024" /\ fm.meta.department = "D"
    /\ fm_text = <<"---", "\n", "x", "\n", "---", "\n", "\n", "x">>
    /\ fm.body = <<"x">>

-----------------------------------------------------------------------------
(* Properties of the conversation.                                         *)

\* the document that the handler of update e hands to parse_markdown (None
\* when the handler returns before it gets there)
ParsedBy(e) ==
    CASE e.handler = "text_entry" ->
           IF Blank(e.input.text) THEN None ELSE e.input
      [] e.handler = "document_entry" ->
           IF e.input.too_big \/ e.input.ext \notin {".md", ".txt", ".markdown"}
           THEN None ELSE e.input.content
      [] e.handler = "report_text_received" ->
           IF e.input.chars < 10 \/ e.input.ai.raised # ""
           THEN None
           ELSE IF Blank(e.input.ai.markdown.text) THEN None ELSE e.input.ai.markdown
      [] e.handler = "report_file_received" ->
           IF \/ e.input.file.too_big
              \/ e.input.file.ext \notin {".docx", ".pdf", ".txt"}
              \/ e.input.file.content.raised
              \/ e.input.file.content.chars < 10
              \/ e.input.ai.raised # ""
           THEN None
           ELSE IF Blank(e.input.ai.markdown.text) THEN None ELSE e.input.ai.markdown
      [] OTHER -> None

\* parse_markdown(d) fails with the frontmatter error
FrontmatterErrorIn(d) == ExtractFrontmatter(d.text, d.loaded).raised = "ValueError"

\* parse_markdown(d) returns no block
ZeroBlocksIn(d) ==
    /\ ExtractFrontmatter(d.text, d.loaded).raised = ""
    /\ WalkAst(d.ast) = <<>>

Sent(msgs, text) == \E i \in DOMAIN msgs : msgs[i].text = text

\* the error message reaches the user (after "Oshibka razbora rezultata: "
\* in the /report flow)
ErrorMessageSent(msgs, d) ==
    \/ Sent(msgs, ExtractFrontmatter(d.text, d.loaded).message)
    \/ Sent(msgs, "Oshibka razbora rezultata: "
                  \o ExtractFrontmatter(d.text, d.loaded).message)

\* C4: whenever parse_markdown fails with the frontmatter error in text_entry,
\* in document_entry or in the /report flow, the error message is sent to the
\* user, nothing of the input is stored in user_data, the conversation ends
\* and build_docx is not called.
C4_FrontmatterErrorStops ==
    [][(/\ pc = "idle"
        /\ ParsedBy(event') # None
        /\ FrontmatterErrorIn(ParsedBy(event')))
       => /\ ErrorMessageSent(out', ParsedBy(event'))
          /\ user_data' = user_data
          /\ conv'[event'.chat] = END
          /\ pc' = "idle" /\ caller' = 0]_vars

\* the AI's report came with a header that does not decode
C4_Witness ==
    /\ event # None
    /\ event.handler = "report_text_received"
    /\ ParsedBy(event) # None
    /\ FrontmatterErrorIn(ParsedBy(event))
    /\ Len(out) = 2
    /\ out[2].method = "edit_text"
    /\ conv[event.chat] = END
    /\ KEY_BLOCKS \notin DOMAIN user_data
    /\ pc = "idle"

\* C5: after any sequence of events of a conversation, build_docx is never
\* called with an empty block sequence; an input whose parse yields zero
\* blocks is reported to the user and ends the conversation without
\* rendering.
C5_NoRenderOfEmpty ==
    /\ [](caller # 0 => blocks # <<>>)
    /\ [][(/\ pc = "idle"
           /\ ParsedBy(event') # None
           /\ ZeroBlocksIn(ParsedBy(event')))
          => /\ \/ Sent(out', EmptyDocumentText)
                \/ Sent(out', "Ne udalos sgenerirovat otchet.")
             /\ user_data' = user_data
             /\ conv'[event'.chat] = END
             /\ pc' = "idle" /\ caller' = 0]_vars

\* a file with a header and nothing after it was reported as empty
C5_Witness ==
    /\ event # None
    /\ event.handler = "document_entry"
    /\ ParsedBy(event) # None
    /\ ZeroBlocksIn(ParsedBy(event))
    /\ ParsedBy(event).name = "header_only"
    /\ Sent(out, EmptyDocumentText)
    /\ conv[event.chat] = END
    /\ pc = "idle" /\ caller = 0

-----------------------------------------------------------------------------
(* Failure of build_docx seen from _generate_and_send.                     *)

FullPipeline ==
    <<"setup", "title_page", "page_break", "toc", "page_break">>
        \o [i \in 1..Len(blocks) |-> Routine(blocks[i])]
        \o <<"page_numbers", "save">>

\* _generate_and_send returns after build_docx raised
FailedGenerateReturns == pc = "failed" /\ caller # 0 /\ pc' = "idle"

DocumentsSent(msgs) ==
    Cardinality({k \in 1..Len(msgs) : msgs[k].method = "reply_document"})

\* C11: a buffer exists only once every step of the pipeline has run; a call
\* of build_docx that failed has produced no buffer, and when
\* _generate_and_send returns from it the user has got the generic failure
\* message and no document, the five session keys are gone from user_data
\* and the conversation is ended.
C11_FailurePropagates ==
    /\ [](buf # None => pc = "done" /\ steps = FullPipeline)
    /\ [](pc = "failed" => buf = None /\ exc # "")
    /\ [][FailedGenerateReturns =>
            /\ out' = Append(out, Msg("reply_text", GenerationFailedText))
            /\ DocumentsSent(out') = DocumentsSent(out)
            /\ DOMAIN user_data' \cap SessionKeys = {}
            /\ conv'[caller] = END]_vars

\* a generate that failed has returned: the failure message is the last one
\* sent and the session is gone
C11_Witness ==
    /\ pc = "idle" /\ caller = 0
    /\ event # None /\ event.handler = "dashboard_callback"
    /\ event.input = Data("meta:", "generate")
    /\ out # <<>> /\ out[Len(out)] = Msg("reply_text", GenerationFailedText)
    /\ DOMAIN user_data \cap SessionKeys = {}
    /\ conv[event.chat] = END

-----------------------------------------------------------------------------
(* The three lookups from a work type to a label, each applied on its own  *)
(* to any work-type string: _add_title_page (docx_builder.py:88),          *)
(* _build_dashboard_text (main.py:71) and generate_report                  *)
(* (ai_processor.py:77-78).                                                *)

\* ai_processor.py:28-33, the same table as main.py:59-64
AI_WORK_TYPE_LABELS == WORK_TYPE_LABELS

\* ai_processor.py:13-26 and 77-78: REPORT_PROMPT.format(...)
ReportPrompt(wt, text) ==
    "Ty - pomoshchnik dlya napisaniya akademicheskikh otchetov.\n"
    \o "- Tip raboty: " \o Get(AI_WORK_TYPE_LABELS, wt, "Otchet") \o "\n"
    \o "- NE dobavlyay YAML frontmatter\n\nIskhodnyy material:\n" \o text

WorkTypeValues == {"lab", "coursework", "practice", "report", "essay", "", "LAB"}

LabelMetadata ==
    {[Metadata EXCEPT !.title = t, !.author = a, !.work_number = n, !.subject = s] :
        t \in {"", "X"}, a \in {"", "Ivanov"}, n \in {"", "3"}, s \in {"", "Fizika"}}

PromptTexts == {"", "material"}

InitLabels ==
    /\ pc = "lookup"
    /\ work_type \in WorkTypeValues
    /\ metadata \in LabelMetadata
    /\ blocks = <<>>
    /\ doc = None
    /\ idx = 0
    /\ counters = <<0, 0, 0>>
    /\ steps = <<>>
    /\ buf = None
    /\ exc = ""
    /\ net = None
    /\ fm_text = <<>>
    /\ loaded = None
    /\ fm = None
    /\ conv = [c \in {1} |-> END]
    /\ user_data = EmptyDictionary
    /\ out = <<>>
    /\ event = None
    /\ caller = 0
    /\ tree = <<>>

\* the result of a lookup and what the same call gives for "lab"
LookedUp(routine, result, for_lab) ==
    /\ pc = "lookup"
    /\ pc' = "looked_up"
    /\ event' = [chat |-> 0, handler |-> routine, input |-> work_type, raised |-> ""]
    /\ out' = <<[method |-> routine, result |-> result, for_lab |-> for_lab]>>
    /\ UNCHANGED <<blocks, metadata, work_type, doc, idx, counters, steps, buf, exc, net,
                   fmVars, conv, user_data, caller, tree>>

AddTitlePageCall ==
    \E now_year \in Years :
        LookedUp("_add_title_page", AddTitlePage(metadata, work_type, now_year),
                 AddTitlePage(metadata, "lab", now_year))

BuildDashboardTextCall ==
    LookedUp("_build_dashboard_text", BuildDashboardText(metadata, work_type),
             BuildDashboardText(metadata, "lab"))

GenerateReportCall ==
    \E text \in PromptTexts :
        LookedUp("generate_report", ReportPrompt(work_type, text), ReportPrompt("lab", text))

LabelsNext ==
    \/ AddTitlePageCall
    \/ BuildDashboardTextCall
    \/ GenerateReportCall

SpecLabels == InitLabels /\ [][LabelsNext]_vars

\* C12: for a work type outside lab, coursework, practice and report, the
\* title page, the dashboard text and the AI prompt are the ones the same
\* call gives for "lab".
C12_UnknownFallsBackToLab ==
    pc = "looked_up" /\ work_type \notin {"lab", "coursework", "practice", "report"}
        => out[1].result = out[1].for_lab

-----------------------------------------------------------------------------
(* _walk_ast applied to the trees mistune can hand over: tables with and   *)
(* without head cells and body rows, paragraphs around images, nested      *)
(* strong and emphasis, and the same nodes inside block quotes, list items *)
(* and container nodes.                                                    *)

MaxTokens == 2

AstCodespan(raw) == [type |-> "codespan", raw |-> raw]
AstStrong(children) == [type |-> "strong", children |-> children]
AstEmphasis(children) == [type |-> "emphasis", children |-> children]
AstTableCell(children) == [type |-> "table_cell", children |-> children]
AstTableRow(children) == [type |-> "table_row", children |-> children]
AstTableHead(children) == [type |-> "table_head", children |-> children]
AstTableBody(children) == [type |-> "table_body", children |-> children]
AstTable(children) == [type |-> "table", children |-> children]
AstBlockQuote(children) == [type |-> "block_quote", children |-> children]
AstListItem(children) == [type |-> "list_item", children |-> children]
AstList(ordered, children) ==
    [type |-> "list", attrs |-> [ordered |-> ordered], children |-> children]
\* a node type _walk_ast has no branch for: it descends into the children
AstContainer(children) == [type |-> "footnotes", children |-> children]

PicUrl == Url("https://", "h/a.png")
Pic == AstImage(<<AstText("pic")>>, PicUrl)
Cell(text) == AstTableCell(<<AstText(text)>>)

TableTokens ==
    {AstTable(<<AstTableHead(<<Cell("h1"), Cell("h2")>>),
                AstTableBody(<<AstTableRow(<<Cell("a"), Cell("b")>>)>>)>>),
     AstTable(<<AstTableHead(<<Cell("h1"), Cell("h2")>>), AstTableBody(<<>>)>>),
     AstTable(<<AstTableHead(<<Cell("h1")>>)>>),
     AstTable(<<AstTableHead(<<Cell("h1")>>),
                AstTableBody(<<AstTableRow(<<>>), AstTableRow(<<AstText("x")>>)>>)>>),
     AstTable(<<AstTableHead(<<>>), AstTableBody(<<AstTableRow(<<>>)>>)>>),
     AstTable(<<AstTableHead(<<AstText("x")>>), AstTableBody(<<>>)>>),
     AstTable(<<>>),
     AstTable(<<AstTableHead(<<>>),
                AstTableBody(<<AstTableRow(<<>>), AstTableRow(<<Cell("a")>>)>>)>>),
     AstTable(<<AstTableHead(<<AstTableCell(<<>>)>>)>>)}

ParagraphTokens ==
    {AstParagraph(<<Pic>>),
     AstParagraph(<<AstImage(<<>>, PicUrl)>>),
     AstParagraph(<<AstImage(<<AstText("pic")>>, Url("", ""))>>),
     AstParagraph(<<AstImage(<<>>, Url("", ""))>>),
     AstParagraph(<<Pic, AstText("after")>>),
     AstParagraph(<<Pic, Pic>>),
     AstParagraph(<<AstStrong(<<Pic>>)>>),
     AstParagraph(<<AstText("plain")>>),
     AstParagraph(<<>>),
     AstParagraph(<<AstStrong(<<AstEmphasis(<<AstText("both")>>)>>)>>),
     AstParagraph(<<AstEmphasis(<<AstStrong(<<AstText("both")>>)>>)>>),
     AstParagraph(<<AstStrong(<<AstText("b"), AstCodespan("c"),
                                AstEmphasis(<<AstText("i")>>)>>), AstText("t")>>),
     AstParagraph(<<AstEmphasis(<<AstCodespan("c"), AstStrong(<<AstText("b")>>),
                                  AstText("i")>>)>>),
     AstParagraph(<<AstEmphasis(<<>>), AstStrong(<<AstImage(<<>>, PicUrl)>>)>>)}

NestedTokens ==
    {AstBlockQuote(<<AstParagraph(<<Pic>>)>>),
     AstBlockQuote(<<AstParagraph(<<AstEmphasis(<<AstStrong(<<AstText("q")>>)>>)>>),
                     AstParagraph(<<AstText("r")>>)>>),
     AstList(FALSE, <<AstListItem(<<AstParagraph(<<Pic>>)>>)>>),
     AstContainer(<<AstParagraph(<<Pic>>), AstTable(<<AstTableHead(<<Cell("h1")>>)>>)>>),
     AstContainer(<<AstTable(<<>>), AstParagraph(<<AstStrong(<<AstText("b")>>)>>)>>),
     AstHeading(2, <<AstStrong(<<AstText("intro")>>)>>),
     AstBlankLine}

AstLink(children, url) == [type |-> "link", children |-> children, attrs |-> [url |-> url]]
AstSoftbreak == [type |-> "softbreak"]
AstLinebreak == [type |-> "linebreak"]
AstBlockText(children) == [type |-> "block_text", children |-> children]
AstBlockCode(raw) == [type |-> "block_code", raw |-> raw]
\* inline nodes _inline_to_runs has no branch for
AstInlineHtml(raw) == [type |-> "inline_html", raw |-> raw]
AstStrikethrough(children) == [type |-> "strikethrough", children |-> children]
AstUnknown == [type |-> "footnote_ref"]
\* the text node mistune makes of an empty source, as for the text of "[](url)"
EmptyText == AstText("")

ListTokens ==
    {AstList(FALSE, <<AstListItem(<<AstBlockText(<<AstText("one")>>)>>)>>),
     AstList(TRUE, <<AstListItem(<<AstBlockText(<<AstText("one")>>)>>),
                     AstListItem(<<AstBlockText(<<AstStrong(<<AstText("two")>>)>>)>>)>>),
     AstList(FALSE, <<AstListItem(<<>>)>>),
     AstList(TRUE, <<AstListItem(<<AstBlockText(<<AstImage(<<>>, PicUrl)>>)>>),
                     AstListItem(<<AstText("raw item")>>)>>),
     AstList(FALSE, <<AstListItem(<<AstParagraph(<<AstText("p")>>), AstBlankLine,
                                    AstList(FALSE, <<AstListItem(
                                        <<AstBlockText(<<AstText("in")>>)>>)>>)>>)>>)}

InlineTokens ==
    {AstParagraph(<<AstLink(<<AstText("site")>>, PicUrl)>>),
     AstParagraph(<<AstLink(<<AstText("site")>>, Url("", ""))>>),
     AstParagraph(<<AstLink(<<EmptyText>>, PicUrl)>>),
     AstParagraph(<<AstText("a"), AstSoftbreak, AstText("b"), AstLinebreak>>),
     AstParagraph(<<AstCodespan("x = 1"), AstInlineHtml("<b>"), AstUnknown>>),
     AstParagraph(<<AstStrikethrough(<<AstText("gone")>>), AstInlineHtml("")>>),
     AstParagraph(<<AstText("see "), AstImage(<<>>, PicUrl), Pic>>)}

QuoteTokens ==
    {AstBlockQuote(<<AstParagraph(<<AstText("q1")>>), AstBlankLine,
                     AstParagraph(<<AstText("q2")>>)>>),
     AstBlockQuote(<<AstParagraph(<<AstImage(<<>>, PicUrl)>>),
                     AstParagraph(<<AstText("after")>>)>>),
     AstBlockQuote(<<AstParagraph(<<AstText("before")>>),
                     AstParagraph(<<AstImage(<<>>, PicUrl)>>)>>),
     AstBlockQuote(<<AstBlockCode(<<"code">>), AstParagraph(<<AstText("q")>>),
                     AstList(FALSE, <<AstText("item")>>)>>),
     AstBlockQuote(<<AstBlankLine, AstBlockCode(<<"code">>)>>),
     AstBlockQuote(<<AstParagraph(<<AstImage(<<>>, PicUrl)>>)>>),
     AstBlockQuote(<<>>)}

TokenUniverse ==
    TableTokens \cup ParagraphTokens \cup NestedTokens \cup ListTokens
        \cup InlineTokens \cup QuoteTokens

InitWalk ==
    /\ pc = "walk"
    /\ tree \in SeqsUpTo(TokenUniverse, MaxTokens)
    /\ blocks = <<>>
    /\ metadata = Metadata
    /\ work_type = "lab"
    /\ doc = None
    /\ idx = 0
    /\ counters = <<0, 0, 0>>
    /\ steps = <<>>
    /\ buf = None
    /\ exc = ""
    /\ net = None
    /\ fm_text = <<>>
    /\ loaded = None
    /\ fm = None
    /\ conv = [c \in {1} |-> END]
    /\ user_data = EmptyDictionary
    /\ out = <<>>
    /\ event = None
    /\ caller = 0

\* parse_markdown, converter.py:294: blocks = _walk_ast(ast)
WalkAstCall ==
    /\ pc = "walk"
    /\ blocks' = WalkAst(tree)
    /\ pc' = "walked"
    /\ UNCHANGED <<metadata, work_type, doc, idx, counters, steps, buf, exc, net,
                   fmVars, botVars, tree>>

SpecWalk == InitWalk /\ [][WalkAstCall]_vars

\* The nodes _walk_ast meets, in document order: the tokens it is given and,
\* below a token it has no branch for, that token's children.
WalkBranches ==
    {"heading", "paragraph", "code_block", "block_code", "list", "table",
     "block_quote", "thematic_break", "blank_line"}

RECURSIVE Walked(_)
Walked(tokens) ==
    IF tokens = <<>> THEN <<>>
    ELSE (IF Head(tokens).type \notin WalkBranches /\ "children" \in DOMAIN Head(tokens)
          THEN Walked(Head(tokens).children)
          ELSE <<Head(tokens)>>)
         \o Walked(Tail(tokens))

OfType(seq, type) == SelectSeq(seq, LAMBDA x : x.type = type)

ChildrenOfType(node, type) == OfType(Get(node, "children", <<>>), type)

\* a table node yields a header cell / a body row that holds a cell
YieldsHeaderCell(table) ==
    \E h \in 1..Len(ChildrenOfType(table, "table_head")) :
        ChildrenOfType(ChildrenOfType(table, "table_head")[h], "table_cell") # <<>>
YieldsRow(table) ==
    \E b \in 1..Len(ChildrenOfType(table, "table_body")) :
        LET body == ChildrenOfType(table, "table_body")[b]
        IN  \E r \in 1..Len(body.children) :
               ChildrenOfType(body.children[r], "table_cell") # <<>>

YieldingTables ==
    SelectSeq(OfType(Walked(tree), "table"),
              LAMBDA t : YieldsHeaderCell(t) \/ YieldsRow(t))

\* C13: after _walk_ast no TableBlock has zero headers and zero rows; the
\* TableBlocks are, in order, those of the table nodes that yield a header
\* cell or a body row with a cell (a table node yielding neither gives no
\* block), and a table node yielding header cells only gives a TableBlock
\* with headers and an empty rows sequence.
C13_NoEmptyTable ==
    pc = "walked" =>
        LET tables == OfType(blocks, "table")
        IN  /\ \A k \in 1..Len(tables) : tables[k].headers # <<>> \/ tables[k].rows # <<>>
            /\ Len(tables) = Len(YieldingTables)
            /\ \A k \in 1..Len(YieldingTables) :
                  /\ (tables[k].headers # <<>>) = YieldsHeaderCell(YieldingTables[k])
                  /\ (tables[k].rows # <<>>) = YieldsRow(YieldingTables[k])

\* a walk over a table that yields nothing, followed by a table with header
\* cells only: one TableBlock, with the two headers and no rows
C13_Witness ==
    /\ pc = "walked"
    /\ Len(tree) = 2
    /\ tree[1] = AstTable(<<AstTableHead(<<>>), AstTableBody(<<AstTableRow(<<>>)>>)>>)
    /\ tree[2] = AstTable(<<AstTableHead(<<Cell("h1"), Cell("h2")>>), AstTableBody(<<>>)>>)
    /\ blocks = <<TableBlock(<<"h1", "h2">>, <<>>)>>

\* a paragraph node whose only child is a single image node
ImageOnly(par) == Len(par.children) = 1 /\ par.children[1].type = "image"

AltOf(image) == IF image.children = <<>> THEN "" ELSE image.children[1].raw

ImageOnlyParagraphs == SelectSeq(OfType(Walked(tree), "paragraph"), ImageOnly)
OtherParagraphs ==
    SelectSeq(OfType(Walked(tree), "paragraph"), LAMBDA p : ~ImageOnly(p))

\* C14: after _walk_ast the ImageBlocks are, in order, one per paragraph
\* node met by the walk whose only child is an image, each with that image's
\* alt text and URL, empty or not; such a paragraph gives no ParagraphBlock
\* and no other paragraph gives an ImageBlock, so there are at most as many
\* ParagraphBlocks as other paragraphs.
C14_StandaloneImagePromoted ==
    pc = "walked" =>
        /\ OfType(blocks, "image")
             = [k \in 1..Len(ImageOnlyParagraphs) |->
                  ImageBlock(AltOf(ImageOnlyParagraphs[k].children[1]),
                             ImageOnlyParagraphs[k].children[1].attrs.url)]
        /\ Len(OfType(blocks, "paragraph")) <= Len(OtherParagraphs)

\* an image alone with neither alt text nor URL, then an image followed by
\* text: an ImageBlock with two empty fields and a ParagraphBlock
C14_Witness ==
    /\ pc = "walked"
    /\ tree = <<AstParagraph(<<AstImage(<<>>, Url("", ""))>>),
                AstParagraph(<<Pic, AstText("after")>>)>>
    /\ blocks = <<ImageBlock("", Url("", "")),
                  ParagraphBlock(<<PlainRun("[pic]"), PlainRun("after")>>)>>

\* the runs the claim gives a strong or emphasis node: those of its children
\* with the one flag set
WithFlag(runs, flag) ==
    [i \in DOMAIN runs |->
        [text |-> runs[i].text,
         bold |-> IF flag = "bold" THEN TRUE ELSE runs[i].bold,
         italic |-> IF flag = "italic" THEN TRUE ELSE runs[i].italic,
         code |-> runs[i].code]]

RECURSIVE ClaimedRuns(_)
ClaimedRuns(children) ==
    IF children = <<>> THEN <<>>
    ELSE (CASE Head(children).type = "strong" ->
                 WithFlag(ClaimedRuns(Head(children).children), "bold")
            [] Head(children).type = "emphasis" ->
                 WithFlag(ClaimedRuns(Head(children).children), "italic")
            [] OTHER -> InlineToRuns(<<Head(children)>>))
         \o ClaimedRuns(Tail(children))

\* the paragraphs met by the walk that become ParagraphBlocks
RunParagraphs == SelectSeq(OtherParagraphs, LAMBDA p : ClaimedRuns(p.children) # <<>>)

\* C15: after _walk_ast every ParagraphBlock holds, for each strong
\* (emphasis) node of its paragraph at any depth, the runs of that node's
\* children in order, with bold (italic) true and text and other flags as
\* they were; strong around emphasis around a text, and emphasis around
\* strong around a text, give one Run with bold and italic both true.
C15_FlagsCompose ==
    pc = "walked" =>
        /\ OfType(blocks, "paragraph")
             = [k \in 1..Len(RunParagraphs) |->
                  ParagraphBlock(ClaimedRuns(RunParagraphs[k].children))]
        /\ \A k \in 1..Len(RunParagraphs) :
              RunParagraphs[k].children \in
                    {<<AstStrong(<<AstEmphasis(<<AstText("both")>>)>>)>>,
                     <<AstEmphasis(<<AstStrong(<<AstText("both")>>)>>)>>}
                 => OfType(blocks, "paragraph")[k].runs = <<Run("both", TRUE, TRUE, FALSE)>>

\* both nesting orders in one walk, each lowered to the same single Run
C15_Witness ==
    /\ pc = "walked"
    /\ tree = <<AstParagraph(<<AstStrong(<<AstEmphasis(<<AstText("both")>>)>>)>>),
                AstParagraph(<<AstEmphasis(<<AstStrong(<<AstText("both")>>)>>)>>)>>
    /\ blocks = <<ParagraphBlock(<<Run("both", TRUE, TRUE, FALSE)>>),
                  ParagraphBlock(<<Run("both", TRUE, TRUE, FALSE)>>)>>

-----------------------------------------------------------------------------
(* The inputs of build_docx during and after the call.                     *)

\* C16: no step of build_docx changes the block sequence or a field of the
\* Metadata record it was given, so both are as passed in when the call has
\* returned a buffer and when it has failed.
C16_InputsUnchanged == [][blocks' = blocks /\ metadata' = metadata]_vars

\* a call that returned a buffer for two blocks and a Metadata with every
\* field empty, the title page rendered from the defaults
C16_Witness ==
    /\ pc = "done" /\ buf # None
    /\ Len(blocks) = 2
    /\ metadata = Metadata
    /\ "title_page" \in {steps[k] : k \in 1..Len(steps)}

-----------------------------------------------------------------------------
(* One user in two chats.  The ConversationHandler keeps one state per     *)
(* (chat, user) (main.py:507-529, the library's default key), while        *)
(* context.user_data is the one dictionary of the user.                    *)

Init2 ==
    /\ pc = "idle"
    /\ blocks = <<>>
    /\ metadata = Metadata
    /\ work_type = "lab"
    /\ doc = None
    /\ idx = 0
    /\ counters = <<0, 0, 0>>
    /\ steps = <<>>
    /\ buf = None
    /\ exc = ""
    /\ net = None
    /\ fm_text = <<>>
    /\ loaded = None
    /\ fm = None
    /\ conv = [c \in {1, 2} |-> END]
    /\ user_data = EmptyDictionary
    /\ out = <<>>
    /\ event = None
    /\ caller = 0
    /\ tree = <<>>

\* The updates sent in the two chats: two documents as text, one as a file,
\* four buttons of the dashboard, one material for each /report flow.
TwoChatInput ==
    \/ event = None
    \/ /\ event # None
       /\ CASE event.handler = "text_entry" -> event.input.name \in {"full", "no_header"}
            [] event.handler = "document_entry" ->
                 ~event.input.too_big /\ event.input.ext = ".md"
                    /\ event.input.content.name = "no_header"
            [] event.handler = "dashboard_callback" ->
                 event.input \in {Data("meta:", "generate"), Data("meta:", "cancel"),
                                  Data("field:", "author"), Data("wt:", "report")}
            [] event.handler = "report_start" -> event.input
            [] event.handler = "report_text_received" ->
                 event.input.chars = 40 /\ event.input.ai.raised = "RuntimeError"
            [] event.handler = "report_file_received" ->
                 event.input.file = File(FALSE, ".txt", Extracted(FALSE, 40))
                    /\ event.input.ai.raised = "ValueError"
            [] OTHER -> TRUE

Next2 ==
    \/ TextEntryCall /\ TwoChatInput'
    \/ DocumentEntryCall /\ TwoChatInput'
    \/ DashboardCallbackCall /\ TwoChatInput'
    \/ FieldTextReceivedCall
    \/ ReportStartCall /\ TwoChatInput'
    \/ ReportTextReceivedCall /\ TwoChatInput'
    \/ ReportFileReceivedCall /\ TwoChatInput'
    \/ CancelHandlerCall
    \/ SetupDocument
    \/ TitlePageStep
    \/ PageBreakStep
    \/ TocStep
    \/ RenderBlocksStep
    \/ PageNumbersStep
    \/ SaveStep
    \/ GenerateReturn

Spec2 == Init2 /\ [][Next2]_vars

\* chat c holds a parsed document: its dashboard is shown or a field of it
\* is being edited
InProgress(c) == conv[c] \in {EDIT_META, EDITING_FIELD}

\* a handler of another chat than c returns, or the generate of another chat
HandlerOfOtherChat(c) ==
    \/ event' # event /\ event'.chat # c
    \/ caller \notin {0, c} /\ caller' = 0

Kept(key) ==
    key \in DOMAIN user_data =>
        key \in DOMAIN user_data' /\ user_data'[key] = user_data[key]

\* C17: while a conversation of one chat holds a parsed document, no event
\* handled in the user's other chat changes or removes the Metadata and the
\* block sequence that conversation will pass to build_docx.
C17_ConversationsIsolated ==
    [][\A c \in DOMAIN conv :
          InProgress(c) /\ HandlerOfOtherChat(c) => Kept(KEY_METADATA) /\ Kept(KEY_BLOCKS)]_vars

-----------------------------------------------------------------------------
(* The life of a parsed document in one conversation.                      *)

\* _generate_and_send calls build_docx / returns from it
BuildDocxCalled == pc = "idle" /\ pc' = "setup"
GenerateReturns == pc \in {"done", "failed"} /\ caller # 0 /\ pc' = "idle"

\* C18: build_docx is called only with the Metadata and blocks stored by a
\* parse, in a conversation that shows the dashboard; when the generate step
\* returns, with a document or after a failure, the five session keys are
\* gone from user_data and the conversation is ended; and a chat without a
\* conversation holds no stored Metadata or blocks, so the next render needs
\* a new input to be parsed.
C18_RenderedAtMostOnce ==
    /\ [][BuildDocxCalled =>
            /\ conv[caller'] = EDIT_META
            /\ {KEY_METADATA, KEY_BLOCKS} \subseteq DOMAIN user_data
            /\ metadata' = user_data[KEY_METADATA]
            /\ blocks' = user_data[KEY_BLOCKS]]_vars
    /\ [][GenerateReturns =>
            /\ DOMAIN user_data' \cap SessionKeys = {}
            /\ conv'[caller] = END]_vars
    /\ [](\A c \in DOMAIN conv :
            conv[c] = END /\ caller = 0
                => DOMAIN user_data \cap {KEY_METADATA, KEY_BLOCKS} = {})

\* a document was sent: its conversation is over and nothing of it is stored
C18_Witness ==
    /\ pc = "idle" /\ caller = 0
    /\ out # <<>> /\ out[Len(out)].method = "reply_document"
    /\ DOMAIN user_data \cap SessionKeys = {}
    /\ \A c \in DOMAIN conv : conv[c] = END

-----------------------------------------------------------------------------
(* Editing one field of the title page.                                    *)

\* field_text_received returns in chat c
FieldTextStep(c) ==
    /\ pc = "idle" /\ pc' = "idle"
    /\ conv[c] = EDITING_FIELD
    /\ event'.handler = "field_text_received" /\ event'.chat = c

\* C19: when field_text_received returns, the field being edited is one of
\* the six editable ones; a non-blank text makes exactly this field of the
\* stored Metadata the stripped text, a blank text leaves the Metadata as it
\* was; the blocks and the work type are as before and the conversation
\* shows the dashboard again.
C19_OnlyTheEditedField ==
    [][\A c \in DOMAIN conv :
          FieldTextStep(c) =>
             LET key == user_data[KEY_EDITING_FIELD]
                 value == event'.input.core
             IN  /\ key \in {"title", "author", "group", "teacher", "subject", "work_number"}
                 /\ user_data'[KEY_METADATA] =
                       IF value # ""
                       THEN [k \in MetaKeys |-> IF k = key THEN value
                                                ELSE user_data[KEY_METADATA][k]]
                       ELSE user_data[KEY_METADATA]
                 /\ user_data'[KEY_BLOCKS] = user_data[KEY_BLOCKS]
                 /\ user_data'[KEY_WORK_TYPE] = user_data[KEY_WORK_TYPE]
                 /\ conv'[c] = EDIT_META]_vars

\* the group was typed with spaces around it: the stored group is the
\* stripped text, the title of the parsed document is still there
C19_Witness ==
    /\ pc = "idle"
    /\ event # None /\ event.handler = "field_text_received"
    /\ event.input = Typed("Ivanov I.", TRUE)
    /\ conv[event.chat] = EDIT_META
    /\ user_data[KEY_METADATA].group = "Ivanov I."
    /\ user_data[KEY_METADATA].title = "Lab 1: sort"
    /\ user_data[KEY_METADATA].subject = ""

-----------------------------------------------------------------------------
(* The title page for every combination of empty and set Metadata fields,  *)
(* a whitespace-only university and city among them, rendered in either    *)
(* year of the clock.                                                      *)

TitleMetadata ==
    {[k \in MetaKeys |->
         CASE k = "university" -> u
           [] k = "city" -> c
           [] k = "year" -> IF "year" \in set THEN "2024" ELSE ""
           [] k = "work_number" -> IF k \in set THEN "3" ELSE ""
           [] OTHER -> IF k \in set THEN "X" ELSE ""] :
        set \in SUBSET (MetaKeys \ {"university", "city"}),
        u \in {"", " ", "X"}, c \in {"", " ", "X"}}

InitTitle ==
    /\ pc = "setup"
    /\ blocks = <<>>
    /\ metadata \in TitleMetadata
    /\ work_type \in {"lab", "coursework"}
    /\ doc = None
    /\ idx = 0
    /\ counters = <<0, 0, 0>>
    /\ steps = <<>>
    /\ buf = None
    /\ exc = ""
    /\ net = None
    /\ fm_text = <<>>
    /\ loaded = None
    /\ fm = None
    /\ conv = [c \in {1} |-> END]
    /\ user_data = EmptyDictionary
    /\ out = <<>>
    /\ event = None
    /\ caller = 0
    /\ tree = <<>>

TitleNext ==
    \/ SetupDocument
    \/ TitlePageStep

SpecTitle == InitTitle /\ [][TitleNext]_vars

\* the title page has been added and nothing after it
TitlePageAdded == pc = "break1"

\* the texts of the lines of the page
LineTexts ==
    [i \in 1..Len(doc.elems) |->
        IF doc.elems[i].runs = <<>> THEN "" ELSE doc.elems[i].runs[1].text]

Lines(text) == {i \in 1..Len(LineTexts) : LineTexts[i] = text}

\* what the page shows of title, subject, work number, author and teacher:
\* these five have no default
NoDefaultFields ==
    /\ (Lines("<<" \o metadata.title \o ">>") # {}) = (metadata.title # "")
    /\ (Lines("po discipline <<" \o metadata.subject \o ">>") # {}) = (metadata.subject # "")
    /\ Len(LineTexts) = 26 + (IF metadata.title # "" THEN 1 ELSE 0)
                           + (IF metadata.subject # "" THEN 1 ELSE 0)
    /\ LineTexts[9] = "po " \o WORK_TYPES[work_type]
                      \o (IF metadata.work_number # "" THEN " N" \o metadata.work_number
                          ELSE "")
    /\ Cardinality(Lines(BlankNameLine))
          = Cardinality({k \in {"author", "teacher"} : metadata[k] = ""})
    /\ \A k \in {"author", "teacher"} :
          metadata[k] # "" => Lines(metadata[k] \o "   ______________") # {}

\* a whitespace-only value is blank, an empty one is empty
IsBlank(value) == value \in {"", " "}

\* a constant for the year, as the five configured ones of styles.py:37-47
DEFAULT_YEAR == "2026"

\* C20 as stated: each of university, institute, department, group, city
\* and year shows its value when this is non-blank and a fixed constant
\* otherwise; the five other fields have no default.
C20_FixedDefaults ==
    TitlePageAdded =>
        /\ LineTexts[1] = (IF IsBlank(metadata.university) THEN DEFAULT_UNIVERSITY
                           ELSE metadata.university)
        /\ LineTexts[3] = (IF IsBlank(metadata.institute) THEN DEFAULT_INSTITUTE
                           ELSE metadata.institute)
        /\ LineTexts[5] = (IF IsBlank(metadata.department) THEN DEFAULT_DEPARTMENT
                           ELSE metadata.department)
        /\ Lines("Vypolnil: student gruppy "
                 \o (IF IsBlank(metadata.group) THEN DEFAULT_GROUP ELSE metadata.group)) # {}
        /\ LineTexts[Len(LineTexts) - 1] = (IF IsBlank(metadata.city) THEN DEFAULT_CITY
                                            ELSE metadata.city)
        /\ LineTexts[Len(LineTexts)] = (IF IsBlank(metadata.year) THEN DEFAULT_YEAR
                                        ELSE metadata.year)
        /\ NoDefaultFields

\* C20 amended: each of university, institute, department, group and city
\* shows its value when this is not the empty string and its configured
\* constant otherwise; the year shows its value when not empty and otherwise
\* the year of the clock at the time of the render, in both places of the
\* page; the five other fields have no default.
C20_DefaultsOfEmptyFields ==
    TitlePageAdded =>
        /\ LineTexts[1] = (IF metadata.university = "" THEN DEFAULT_UNIVERSITY
                           ELSE metadata.university)
        /\ LineTexts[3] = (IF metadata.institute = "" THEN DEFAULT_INSTITUTE
                           ELSE metadata.institute)
        /\ LineTexts[5] = (IF metadata.department = "" THEN DEFAULT_DEPARTMENT
                           ELSE metadata.department)
        /\ Lines("Vypolnil: student gruppy "
                 \o (IF metadata.group = "" THEN DEFAULT_GROUP ELSE metadata.group)) # {}
        /\ LineTexts[Len(LineTexts) - 1] = (IF metadata.city = "" THEN DEFAULT_CITY
                                            ELSE metadata.city)
        /\ IF metadata.year = "" THEN LineTexts[Len(LineTexts)] \in Years
           ELSE LineTexts[Len(LineTexts)] = metadata.year
        /\ Lines("Predstavlena na kafedru:   <<___>> _____________ "
                 \o LineTexts[Len(LineTexts)] \o " g.") # {}
        /\ NoDefaultFields

\* a page rendered in 2025 from a Metadata without a year, with a
\* whitespace-only university, a title and no subject, author or teacher
C20_Witness ==
    /\ TitlePageAdded
    /\ metadata.year = "" /\ LineTexts[Len(LineTexts)] = "2025"
    /\ metadata.university = " " /\ LineTexts[1] = " "
    /\ metadata.city = "" /\ LineTexts[Len(LineTexts) - 1] = DEFAULT_CITY
    /\ metadata.title = "X" /\ metadata.subject = ""
    /\ metadata.author = "" /\ metadata.teacher = ""
    /\ Cardinality(Lines(BlankNameLine)) = 2
    /\ Len(LineTexts) = 27

-----------------------------------------------------------------------------
(* The table of contents of a block sequence with blocks of every kind.    *)

\* _add_toc has run
TocAdded == pc \notin {"idle", "setup", "title", "break1", "toc"}

TocPlaceholders == SelectSeq(doc.elems, LAMBDA e : e.el = "toc_empty")

\* C21: once the table of contents is written it holds one entry per
\* HeadingBlock, the k-th entry made of the k-th HeadingBlock's number, text
\* and level, and no placeholder line; for a block sequence without a
\* HeadingBlock it holds no entry and one placeholder line, in italics.
\* Blocks of the other kinds have no part in it.
C21_TocEntriesAreTheHeadings ==
    TocAdded =>
        /\ Len(TocRows) = Len(Headings(blocks))
        /\ \A k \in 1..Len(TocRows) :
              /\ TocRows[k].runs[1].text = ClaimedLine(k)
              /\ TocRows[k].left_indent = Levels[k] - 1
        /\ Len(TocPlaceholders) = (IF Headings(blocks) = <<>> THEN 1 ELSE 0)
        /\ \A k \in 1..Len(TocPlaceholders) :
              /\ Len(TocPlaceholders[k].runs) = 1
              /\ TocPlaceholders[k].runs[1].italic

\* a call that returned for a code block followed by a level-2 heading: one
\* entry, "0.1 Usage", and no placeholder
C21_Witness ==
    /\ pc = "done"
    /\ Len(blocks) = 2
    /\ blocks[1].type = "code" /\ blocks[2] = HeadingBlock(2, "Usage")
    /\ Len(TocRows) = 1 /\ TocRows[1].runs[1].text = "0.1 Usage"
    /\ TocPlaceholders = <<>>

-----------------------------------------------------------------------------
(* _render_table for every TableBlock with up to MaxCells headers and up   *)
(* to MaxTableRows rows of up to MaxCells cells, rows of unequal length and *)
(* empty rows among them.                                                  *)

CellTextsUpTo(n) == SeqsUpTo({"a", "b"}, n)

TableUniverse ==
    {TableBlock(headers, rows) :
        headers \in SeqsUpTo({"h"}, MaxCells),
        rows \in SeqsUpTo(SeqsUpTo({"a"}, MaxCells), MaxTableRows)}
    \cup {TableBlock(<<"h1", "h2">>, <<row>>) : row \in CellTextsUpTo(MaxCells)}

InitTable ==
    /\ pc = "body"
    /\ blocks \in {<<table>> : table \in TableUniverse}
    /\ metadata = Metadata
    /\ work_type = "lab"
    /\ doc = NewDocument
    /\ idx = 0
    /\ counters = <<0, 0, 0>>
    /\ steps = <<>>
    /\ buf = None
    /\ exc = ""
    /\ net = None
    /\ fm_text = <<>>
    /\ loaded = None
    /\ fm = None
    /\ conv = [c \in {1} |-> END]
    /\ user_data = EmptyDictionary
    /\ out = <<>>
    /\ event = None
    /\ caller = 0
    /\ tree = <<>>

SpecTable == InitTable /\ [][RenderBlocksStep]_vars

\* the table block has been rendered
TableRendered == idx = 1

Grids == SelectSeq(doc.elems, LAMBDA e : e.el = "table")

\* the column count the claim gives a table
ClaimedCols(table) ==
    IF table.headers # <<>> THEN Len(table.headers)
    ELSE IF table.rows # <<>> THEN Len(table.rows[1]) ELSE 0

\* C22: rendering a TableBlock addresses no cell outside the grid (no
\* IndexError leaves the renderer); a table with zero columns adds nothing;
\* any other adds one grid with as many columns as headers, or as cells of
\* the first row without headers, and one row per body row plus one for the
\* headers; the header row holds the headers, and the cell of a body row at
\* a column holds the row's text at that column when the row has one and is
\* empty otherwise, so the cells beyond the column count are dropped.
C22_TableGrid ==
    TableRendered =>
        LET table == blocks[1]
            first == IF table.headers # <<>> THEN 1 ELSE 0
        IN  /\ pc # "failed" /\ exc = ""
            /\ ClaimedCols(table) = 0 => doc.elems = <<>>
            /\ ClaimedCols(table) > 0 =>
                  /\ Len(doc.elems) = 1 /\ Len(Grids) = 1
                  /\ Grids[1].cols = ClaimedCols(table)
                  /\ Grids[1].rows = Len(table.rows) + first
                  /\ DOMAIN Grids[1].cells = 1..Grids[1].rows
                  /\ \A r \in 1..Grids[1].rows :
                        /\ DOMAIN Grids[1].cells[r] = 1..Grids[1].cols
                        /\ \A c \in 1..Grids[1].cols :
                              Grids[1].cells[r][c] =
                                 IF r <= first THEN table.headers[c]
                                 ELSE IF c <= Len(table.rows[r - first])
                                      THEN table.rows[r - first][c]
                                 ELSE ""

\* two headers and a row of three cells: the third cell is dropped
C22_Witness ==
    /\ TableRendered
    /\ blocks = <<TableBlock(<<"h1", "h2">>, <<<<"a", "b", "a">>>>)>>
    /\ Len(Grids) = 1
    /\ Grids[1].cells = <<<<"h1", "h2">>, <<"a", "b">>>>

-----------------------------------------------------------------------------
(* Lists, runs and block quotes in the result of _walk_ast.                *)

\* C23: after _walk_ast the ListBlocks are, in order, one per list node met
\* by the walk, each with one item per item of its node, an item without
\* runs included, and so with at least one item.
C23_ListHasItems ==
    pc = "walked" =>
        LET lists == OfType(blocks, "list")
            nodes == OfType(Walked(tree), "list")
        IN  /\ Len(lists) = Len(nodes)
            /\ \A k \in 1..Len(lists) :
                  /\ Len(lists[k].items) = Len(nodes[k].children)
                  /\ lists[k].items # <<>>

\* a list whose only item is empty: a ListBlock with one item without runs
C23_Witness ==
    /\ pc = "walked"
    /\ tree = <<AstList(FALSE, <<AstListItem(<<>>)>>)>>
    /\ blocks = <<ListBlock(FALSE, <<<<>>>>)>>

\* the runs of a block: of a paragraph, of a block quote, of the items of a list
RunsOf(block) ==
    IF block.type \in {"paragraph", "blockquote"} THEN {block.runs[i] : i \in DOMAIN block.runs}
    ELSE IF block.type = "list"
    THEN UNION {{block.items[k][i] : i \in DOMAIN block.items[k]} : k \in DOMAIN block.items}
    ELSE {}

\* C24: after _walk_ast no run of a paragraph, of a list item or of a block
\* quote has the empty string as its text.
C24_NoEmptyRun ==
    pc = "walked" => \A k \in 1..Len(blocks) : \A run \in RunsOf(blocks[k]) : run.text # ""

\* the children of a block quote that hold content
ContentChildren(quote) ==
    SelectSeq(quote.children, LAMBDA ch : ch.type = "paragraph" \/ "children" \in DOMAIN ch)

LineBreakRun == Run("\n", FALSE, FALSE, FALSE)

\* the runs collected from the first k content children, as the claim
\* builds them
RECURSIVE Collected(_, _)
Collected(content, k) ==
    IF k = 0 THEN <<>>
    ELSE Collected(content, k - 1)
         \o (IF Collected(content, k - 1) # <<>> THEN <<LineBreakRun>> ELSE <<>>)
         \o InlineToRuns(content[k].children)

ClaimedQuote(quote) == Collected(ContentChildren(quote), Len(ContentChildren(quote)))

NonEmptyQuotes ==
    SelectSeq(OfType(Walked(tree), "block_quote"), LAMBDA q : ClaimedQuote(q) # <<>>)

\* C25: after _walk_ast the BlockquoteBlocks are, in order, one per
\* block-quote node met by the walk that collects a run; its runs are those
\* of the node's paragraph and content children in order, with one
\* line-break run before the runs of a child exactly when earlier children
\* gave a run, so never in first place; children without a children list
\* give nothing.
C25_QuoteRuns ==
    pc = "walked" =>
        /\ OfType(blocks, "blockquote")
              = [k \in 1..Len(NonEmptyQuotes) |-> BlockquoteBlock(ClaimedQuote(NonEmptyQuotes[k]))]
        /\ \A k \in 1..Len(blocks) :
              blocks[k].type = "blockquote" =>
                 blocks[k].runs # <<>> /\ blocks[k].runs[1] # LineBreakRun

\* a quote whose first paragraph gives no run starts with the text of the
\* second; a quote of two paragraphs holds one line break between them
C25_Witness ==
    /\ pc = "walked"
    /\ tree = <<AstBlockQuote(<<AstParagraph(<<AstImage(<<>>, PicUrl)>>),
                                AstParagraph(<<AstText("after")>>)>>),
                AstBlockQuote(<<AstParagraph(<<AstText("q1")>>), AstBlankLine,
                                AstParagraph(<<AstText("q2")>>)>>)>>
    /\ blocks = <<BlockquoteBlock(<<PlainRun("after")>>),
                  BlockquoteBlock(<<PlainRun("q1"), LineBreakRun, PlainRun("q2")>>)>>

-----------------------------------------------------------------------------
(* The dashboard of one conversation.                                      *)

\* the generate button is handled in chat c
GeneratePressed(c) ==
    /\ pc = "idle"
    /\ conv[c] = EDIT_META
    /\ event'.chat = c
    /\ event'.handler = "dashboard_callback"
    /\ event'.input = Data("meta:", "generate")

StoredMetadata == Get(user_data, KEY_METADATA, Metadata)
Incomplete(meta) == meta.author = "" \/ meta.teacher = ""
AlertSent(msgs) == \E i \in DOMAIN msgs : msgs[i].method = "answer_alert"

\* C26: build_docx is only called with a Metadata whose author and teacher
\* are both not the empty string; the generate button pressed while one of
\* the two is empty answers with an alert, calls nothing, keeps the
\* conversation on the dashboard and leaves user_data as it was.
C26_GenerateNeedsAuthorAndTeacher ==
    /\ [][BuildDocxCalled => metadata'.author # "" /\ metadata'.teacher # ""]_vars
    /\ [](pc # "idle" /\ caller # 0 => metadata.author # "" /\ metadata.teacher # "")
    /\ [][\A c \in DOMAIN conv :
            GeneratePressed(c) /\ Incomplete(StoredMetadata) =>
                /\ pc' = "idle"
                /\ AlertSent(out')
                /\ conv'[c] = EDIT_META
                /\ user_data' = user_data]_vars
    /\ [][\A c \in DOMAIN conv :
            GeneratePressed(c) /\ ~Incomplete(StoredMetadata) => BuildDocxCalled]_vars

\* the button was refused for the teacher: the author is stored, the
\* teacher is not, and the dashboard is still shown
C26_Witness ==
    /\ pc = "idle"
    /\ event # None
    /\ event.handler = "dashboard_callback"
    /\ event.input = Data("meta:", "generate")
    /\ AlertSent(out)
    /\ conv[event.chat] = EDIT_META
    /\ StoredMetadata.author # ""
    /\ StoredMetadata.teacher = ""
    /\ KEY_BLOCKS \in DOMAIN user_data

\* a report handler has called generate_report
ReportCalls ==
    IF event # None /\ event.handler \in {"report_text_received", "report_file_received"}
    THEN event.input.calls
    ELSE <<>>

\* C27: in one conversation of a user, every call of generate_report gets
\* the work type "lab": a work type other than "lab" is stored only while the
\* conversation shows the dashboard or edits a field, and none is stored
\* while the chat has no conversation or waits for the material of a report.
C27_ReportWorkTypeIsLab ==
    /\ [](\A i \in DOMAIN ReportCalls : ReportCalls[i] = "lab")
    /\ [](\A c \in DOMAIN conv :
            Get(user_data, KEY_WORK_TYPE, "lab") # "lab"
                => conv[c] \in {EDIT_META, EDITING_FIELD})
    /\ [](\A c \in DOMAIN conv :
            conv[c] \in {END, REPORT_INPUT} /\ caller = 0
                => KEY_WORK_TYPE \notin DOMAIN user_data)

\* generate_report was called and its report is on the dashboard
C27_Witness ==
    /\ pc = "idle"
    /\ ReportCalls = <<"lab">>
    /\ \A c \in DOMAIN conv : conv[c] = EDIT_META
    /\ KEY_BLOCKS \in DOMAIN user_data

\* callback data that names no editable field and no work type
ForeignData == {Data("field:", "year"), Data("wt:", "essay")}

\* C28: a field key is stored exactly while the conversation is in
\* EDITING_FIELD, and it is one of the six editable fields; a stored work
\* type is one of lab, coursework, practice, report; a callback that names
\* another field or work type leaves user_data as it was and the
\* conversation on the dashboard.
C28_StoredKeys ==
    /\ [](\A c \in DOMAIN conv :
            /\ KEY_EDITING_FIELD \in DOMAIN user_data <=> conv[c] = EDITING_FIELD
            /\ KEY_EDITING_FIELD \in DOMAIN user_data =>
                  user_data[KEY_EDITING_FIELD] \in
                      {"title", "author", "group", "teacher", "subject", "work_number"}
            /\ KEY_WORK_TYPE \in DOMAIN user_data =>
                  user_data[KEY_WORK_TYPE] \in {"lab", "coursework", "practice", "report"})
    /\ [][\A c \in DOMAIN conv :
            /\ pc = "idle"
            /\ conv[c] = EDIT_META
            /\ event'.handler = "dashboard_callback"
            /\ event'.input \in ForeignData
            => /\ user_data' = user_data
               /\ conv'[c] = EDIT_META
               /\ pc' = "idle"]_vars

\* a field is being edited while a work type other than "lab" is stored
C28_Witness ==
    /\ \A c \in DOMAIN conv : conv[c] = EDITING_FIELD
    /\ user_data[KEY_EDITING_FIELD] = "teacher"
    /\ user_data[KEY_WORK_TYPE] = "practice"

====
